---- MODULE Spec2Model ----
(***************************************************************************)
(* A model of clone-site.mjs, the page mirroring pipeline: one run of     *)
(* main() from the command line to the written index.html and style.css,  *)
(* with the CSS collector (collectCssAndAssets, inlineCssImports), the    *)
(* download pool (downloadWithConcurrency), the URL-to-local-path map and  *)
(* the two rewrite passes.                                                 *)
(*                                                                         *)
(* Text is a sequence of fragments.  A URL is a sequence of string        *)
(* fragments (origin, directories, name, extension), so that one URL can  *)
(* be a proper prefix of another and substring replacement is computed,   *)
(* not assumed.  CSS text is a sequence of tokens <<kind, value>>, one per *)
(* url(...) token, @import rule or comment the code reads or writes.       *)
(***************************************************************************)
EXTENDS Integers, Sequences, FiniteSets, TLC

(***************************************************************************)
(* Bounds of the model.                                                    *)
(***************************************************************************)
\* Largest --concurrency value tried (parseArgs keeps it >= 1).
MaxLimit == 2

\* Directory names base, base-1, ... below this suffix may exist beforehand.
MaxExisting == 1

\* How many runs of the program follow one another.
MaxRuns == 2

\* Longest text typed into the tokenizer App out of its alphabet.
MaxText == 3

\* How many buttons of the tokenizer App are clicked.
MaxClicks == 3

\* How many times a text area of the tokenizer App is edited.
MaxEdits == 1

\* Longest CSS text, in tokens, of the imported stylesheet of the url()
\* pages.
MaxRefs == 2

\* POST /index requests the upload server receives.
MaxPosts == 3

(***************************************************************************)
(* Sequences.                                                              *)
(***************************************************************************)
Last(s) == s[Len(s)]

Front(s) == SubSeq(s, 1, Len(s) - 1)

Range(s) == {s[i] : i \in 1..Len(s)}

Min2(a, b) == IF a <= b THEN a ELSE b

\* Whether pat occurs in s at position i.
OccursAt(s, pat, i) ==
    /\ i >= 1
    /\ i + Len(pat) - 1 <= Len(s)
    /\ SubSeq(s, i, i + Len(pat) - 1) = pat

\* Array.from(new Set(seq)): the first occurrence of every element, in order.
Dedup(s) ==
    LET firsts == {i \in 1..Len(s) : \A j \in 1..(i - 1) : s[j] # s[i]}
    IN  [k \in 1..Cardinality(firsts) |->
            s[CHOOSE i \in firsts : Cardinality({j \in firsts : j <= i}) = k]]

\* String.prototype.split(pat).join(rep): every occurrence of pat, found left
\* to right without overlap, replaced by rep.
RECURSIVE SplitJoin(_, _, _)
SplitJoin(s, pat, rep) ==
    IF pat = <<>> \/ s = <<>> THEN s
    ELSE IF OccursAt(s, pat, 1)
         THEN rep \o SplitJoin(SubSeq(s, Len(pat) + 1, Len(s)), pat, rep)
         ELSE <<s[1]>> \o SplitJoin(Tail(s), pat, rep)

(***************************************************************************)
(* URLs.                                                                   *)
(***************************************************************************)
Origin == "https://x.test/"

\* Fragments that end a directory: new URL(ref, base) resolves a relative
\* reference against the base up to its last "/".
DirFragments == {Origin, "d/"}

\* Fragments that start an absolute reference.
HttpFragments == {Origin}

AbsFragments == HttpFragments \cup {"data:", "ftp://x.test/"}

\* File extensions (path.extname) of the model's URLs.
ExtFragments == {".css", ".png", ".woff", ".js"}

\* A reference new URL() cannot parse, whatever the base.
BadRef == <<"http://[">>

NoUrl == <<>>

\* /^https?:\/\//.test(u)
IsHttp(u) == u # <<>> /\ u[1] \in HttpFragments

\* /^(data:|#|blob:)/i.test(val)
IsDataRef(ref) == ref # <<>> /\ ref[1] \in {"data:", "#", "blob:"}

CanResolve(ref) == ref # <<>> /\ ref # BadRef

\* The base up to and including its last directory fragment.
RECURSIVE DirOf(_)
DirOf(base) ==
    IF base = <<>> THEN <<>>
    ELSE IF Last(base) \in DirFragments THEN base
    ELSE DirOf(Front(base))

\* new URL(ref, base).toString() for a reference that parses.
ResolveUrl(ref, base) ==
    IF ref[1] \in AbsFragments THEN ref
    ELSE IF ref[1] = "#" THEN base \o ref
    ELSE IF ref[1] = "/" THEN <<base[1]>> \o Tail(ref)
    ELSE DirOf(base) \o ref

\* path.extname(u.pathname)
ExtOf(u) == IF u # <<>> /\ Last(u) \in ExtFragments THEN Last(u) ELSE ""

\* path.basename(u.pathname) without its extension.
BaseOf(u) ==
    LET stem == IF ExtOf(u) = "" THEN u ELSE Front(u)
    IN  IF stem = <<>> \/ Last(stem) \in DirFragments \cup AbsFragments
        THEN ""
        ELSE Last(stem)

\* The text of a URL, its fragments joined.
RECURSIVE Joined(_)
Joined(u) == IF u = <<>> THEN "" ELSE u[1] \o Joined(Tail(u))

(***************************************************************************)
(* Path classifier.                                                        *)
(***************************************************************************)
\* mime.lookup(ext)
MimeLookup(ext) ==
    CASE ext = ".css"  -> "text/css"
      [] ext = ".png"  -> "image/png"
      [] ext = ".woff" -> "font/woff"
      [] ext = ".js"   -> "application/javascript"
      [] OTHER         -> ""

\* mime.extension(contentType), "" when the type is unknown to the table.
ExtFromMime(ct) ==
    CASE ct = "text/css"               -> "css"
      [] ct = "text/html"              -> "html"
      [] ct = "image/png"              -> "png"
      [] ct = "font/woff"              -> "woff"
      [] ct = "application/javascript" -> "js"
      [] OTHER                         -> ""

\* /javascript|ecmascript/.test(type)
IsJsType(t) == t \in {"application/javascript", "text/x-javascript"}

\* /font|opentype|woff/.test(type)
IsFontType(t) == t \in {"font/woff", "application/x-font"}

\* /image\//.test(type)
IsImgType(t) == t \in {"image/png", "image/x-custom"}

\* A classifier that looks at the image family first.
classifyImgFirst(u, contentType) ==
    LET ext  == ExtOf(u)
        type == IF contentType # "" THEN contentType ELSE MimeLookup(ext)
        isJS   == ext = ".js" \/ IsJsType(type)
        isFont == ext = ".woff" \/ IsFontType(type)
        isImg  == ext = ".png" \/ IsImgType(type)
    IN  IF isImg THEN "img"
        ELSE IF isJS THEN "js"
        ELSE IF isFont THEN "fonts"
        ELSE "other"

classifyByExtOrMime(u, contentType) ==
    LET ext  == ExtOf(u)
        type == IF contentType # "" THEN contentType ELSE MimeLookup(ext)
        isJS   == ext = ".js" \/ IsJsType(type)
        isFont == ext = ".woff" \/ IsFontType(type)
        isImg  == ext = ".png" \/ IsImgType(type)
    IN  IF isJS THEN "js"
        ELSE IF isFont THEN "fonts"
        ELSE IF isImg THEN "img"
        ELSE "other"

ensureExt(u, contentType) ==
    IF ExtOf(u) # "" THEN ExtOf(u)
    ELSE IF ExtFromMime(contentType) # "" THEN "." \o ExtFromMime(contentType)
    ELSE IF IsImgType(contentType) THEN ".img"
    ELSE IF contentType \in {"application/javascript", "text/x-javascript"} THEN ".js"
    ELSE IF IsFontType(contentType) THEN ".woff"
    ELSE ".bin"

\* sanitize: unsafe characters become "_", an empty name becomes "file".
sanitize(s) ==
    CASE s = ""    -> "file"
      [] s = "a b" -> "a_b"
      [] OTHER     -> s

\* crypto sha1 of the URL text, first 8 hex digits: a name that only equal
\* URLs share.
sha1Short(u) == "sha1(" \o Joined(u) \o ")"

\* The local path, one fragment: assets/<folder>/<base>-<hash><ext>.
localPathForAsset(remoteUrl, contentType) ==
    LET folder == classifyByExtOrMime(remoteUrl, contentType)
        base   == sanitize(BaseOf(remoteUrl))
        ext    == ensureExt(remoteUrl, contentType)
    IN  <<"assets/" \o folder \o "/" \o base \o "-" \o sha1Short(remoteUrl) \o ext>>

(***************************************************************************)
(* CSS text.  Tokens <<kind, value>>:                                      *)
(*   "url"       url(value)                                                *)
(*   "import"    @import "value";        (the raw rule text)               *)
(*   "importurl" @import url(value);     (the raw rule text)               *)
(*   "rule"      any other CSS text                                        *)
(*   "inl"       /* @import inlined from value */                          *)
(*   "end"       /* end import */                                          *)
(*   "skip"      /* @import skipped (visited): value */                    *)
(*   "fail"      /* @import failed: value (message) */                     *)
(*   "bad"       /* @import skipped (bad URL): value */                    *)
(*   "hdr"       /* ===== CSS from value ===== */                          *)
(*   "inlinehdr" /* ===== Inline <style> from value ===== */               *)
(*   "failedcss" /* Failed CSS value: message */                           *)
(*   "noncss"    /* Skipped non-CSS value */                               *)
(***************************************************************************)
Tok(kind, value) == <<kind, value>>

KindOf(tok) == tok[1]

ValueOf(tok) == tok[2]

\* The tokens CSS_URL_RE matches: url(...) in a declaration or in an @import.
IsUrlToken(tok) == KindOf(tok) \in {"url", "importurl"}

\* The tokens IMPORT_RE matches.
IsImportRule(tok) == KindOf(tok) \in {"import", "importurl"}

\* The replacement rewriteCssUrlsToAbs returns for one url(...) token.
RewriteUrlToken(tok, cssFileUrl) ==
    IF ~IsUrlToken(tok) THEN tok
    ELSE IF IsDataRef(ValueOf(tok)) THEN tok
    ELSE IF CanResolve(ValueOf(tok))
         THEN Tok(KindOf(tok), ResolveUrl(ValueOf(tok), cssFileUrl))
    ELSE tok

\* A rewrite that resolves against the root of the site, not against the
\* URL of the stylesheet.
rewriteAgainstRoot(css, cssFileUrl) ==
    [i \in 1..Len(css) |-> RewriteUrlToken(css[i], <<Origin>>)]

\* rewriteCssUrlsToAbs: the returned text.
rewriteCssUrlsToAbs(css, cssFileUrl) ==
    [i \in 1..Len(css) |-> RewriteUrlToken(css[i], cssFileUrl)]

\* collect.add over a sequence: a JS Set keeps the order of first insertion.
RECURSIVE AddAll(_, _)
AddAll(set, more) ==
    IF more = <<>> THEN set
    ELSE AddAll(IF more[1] \in Range(set) THEN set ELSE Append(set, more[1]),
                Tail(more))

\* rewriteCssUrlsToAbs: the URLs it adds to collect, in text order.
RECURSIVE CollectedBy(_, _)
CollectedBy(css, cssFileUrl) ==
    IF css = <<>> THEN <<>>
    ELSE LET tok == css[1]
             hit == /\ IsUrlToken(tok)
                    /\ ~IsDataRef(ValueOf(tok))
                    /\ CanResolve(ValueOf(tok))
         IN  (IF hit THEN <<ResolveUrl(ValueOf(tok), cssFileUrl)>> ELSE <<>>)
                 \o CollectedBy(Tail(css), cssFileUrl)

\* String.prototype.replace(raw, rep) with a string pattern: the first
\* occurrence only.
RECURSIVE ReplaceFirst(_, _, _)
ReplaceFirst(text, raw, rep) ==
    IF text = <<>> THEN <<>>
    ELSE IF text[1] = raw THEN rep \o Tail(text)
    ELSE <<text[1]>> \o ReplaceFirst(Tail(text), raw, rep)

\* The scan loop of inlineCssImports over the @import rules of css, in text
\* order: each rule becomes a fetch task (its URL is marked visited) or a
\* fallback comment.
RECURSIVE ScanImports(_, _, _, _)
ScanImports(css, cssUrl, seen, acc) ==
    IF css = <<>> THEN [tasks |-> acc.tasks, fbs |-> acc.fbs, visited |-> seen]
    ELSE LET tok == css[1]
             href == ValueOf(tok)
         IN  IF ~IsImportRule(tok) THEN ScanImports(Tail(css), cssUrl, seen, acc)
             ELSE IF ~CanResolve(href)
                  THEN ScanImports(Tail(css), cssUrl, seen,
                           [acc EXCEPT !.fbs = Append(@, <<tok, <<Tok("bad", href)>>>>)])
             ELSE LET abs == ResolveUrl(href, cssUrl)
                  IN  IF abs \in seen
                      THEN ScanImports(Tail(css), cssUrl, seen,
                               [acc EXCEPT !.fbs = Append(@, <<tok, <<Tok("skip", abs)>>>>)])
                      ELSE ScanImports(Tail(css), cssUrl, seen \cup {abs},
                               [acc EXCEPT !.tasks = Append(@, <<tok, abs>>)])

\* One invocation of inlineCssImports(css, cssUrl, client, depth, ...) up to
\* its await: with depth <= 0 nothing is scanned.
NoScan(seen) == [tasks |-> <<>>, fbs |-> <<>>, visited |-> seen]

\* An invocation whose scan starts where the scan of another invocation
\* left the cursor of IMPORT_RE: behind the first token.
StartInlineMidScan(css, cssUrl, depth, seen) ==
    LET sc == IF depth <= 0 \/ css = <<>> THEN NoScan(seen)
              ELSE ScanImports(Tail(css), cssUrl, seen, [tasks |-> <<>>, fbs |-> <<>>])
    IN  [text |-> css, base |-> cssUrl, depth |-> depth,
         tasks |-> sc.tasks, fbs |-> sc.fbs, visited |-> sc.visited]

StartInline(css, cssUrl, depth, seen) ==
    LET sc == IF depth <= 0 THEN NoScan(seen)
              ELSE ScanImports(css, cssUrl, seen, [tasks |-> <<>>, fbs |-> <<>>])
    IN  [text |-> css, base |-> cssUrl, depth |-> depth,
         tasks |-> sc.tasks, fbs |-> sc.fbs, visited |-> sc.visited]

(***************************************************************************)
(* HTML.  A document is the sequence of its elements in document order;   *)
(* an absent attribute is the empty text.                                  *)
(***************************************************************************)
El(tag) ==
    [tag |-> tag, rel |-> "", as |-> "", src |-> NoUrl, href |-> NoUrl,
     dataSrc |-> NoUrl, dataOriginal |-> NoUrl, dataLazy |-> NoUrl,
     srcset |-> <<>>, dataSrcset |-> <<>>, style |-> <<>>, css |-> <<>>,
     inner |-> <<>>]

\* link[rel~="stylesheet"][href], link[rel="preload"][as="style"][href]
IsStyleLink(el) ==
    /\ el.tag = "link"
    /\ el.href # NoUrl
    /\ \/ el.rel = "stylesheet"
       \/ el.rel = "preload" /\ el.as = "style"

\* The selector of the "standard attrs" pass of collectHtmlAssetUrls.
IsStandardAsset(el) ==
    \/ el.tag \in {"img", "video", "audio", "source", "script"} /\ el.src # NoUrl
    \/ /\ el.tag = "link"
       /\ el.href # NoUrl
       /\ el.rel \in {"icon", "apple-touch-icon", "manifest"} \/ el.as = "image"

\* $(el).attr('data-src') || $(el).attr('data-original') || $(el).attr('data-lazy')
LazyRef(el) ==
    IF el.dataSrc # NoUrl THEN el.dataSrc
    ELSE IF el.dataOriginal # NoUrl THEN el.dataOriginal
    ELSE el.dataLazy

\* try { new URL(u, baseUrl).toString() } catch {}: one URL or none.
TryResolve(ref, baseUrl) ==
    IF CanResolve(ref) THEN <<ResolveUrl(ref, baseUrl)>> ELSE <<>>

\* extractStyles: the stylesheet URLs, deduplicated in document order.
RECURSIVE StyleLinks(_, _)
StyleLinks(html, baseUrl) ==
    IF html = <<>> THEN <<>>
    ELSE (IF IsStyleLink(html[1]) THEN TryResolve(html[1].href, baseUrl) ELSE <<>>)
             \o StyleLinks(Tail(html), baseUrl)

\* extractStyles: the non-empty <style> blocks in document order.
RECURSIVE InlineCssBlocks(_)
InlineCssBlocks(html) ==
    IF html = <<>> THEN <<>>
    ELSE (IF html[1].tag = "style" /\ html[1].css # <<>> THEN <<html[1].css>> ELSE <<>>)
             \o InlineCssBlocks(Tail(html))

extractStyles(html, baseUrl) ==
    [stylesheetUrls |-> Dedup(StyleLinks(html, baseUrl)),
     inlineCssBlocks |-> InlineCssBlocks(html)]

\* The first token of each candidate of a srcset value.
RECURSIVE SrcsetRefs(_)
SrcsetRefs(srcset) ==
    IF srcset = <<>> THEN <<>>
    ELSE (IF srcset[1][1] # NoUrl THEN <<srcset[1][1]>> ELSE <<>>)
             \o SrcsetRefs(Tail(srcset))

\* The url(...) values of a style attribute that are not data:, # or blob:.
RECURSIVE StyleRefs(_)
StyleRefs(style) ==
    IF style = <<>> THEN <<>>
    ELSE (IF IsUrlToken(style[1]) /\ ~IsDataRef(ValueOf(style[1]))
          THEN <<ValueOf(style[1])>> ELSE <<>>)
             \o StyleRefs(Tail(style))

\* addAbs over a sequence of references: the ones that resolve, resolved.
RECURSIVE ResolveAll(_, _)
ResolveAll(refs, baseUrl) ==
    IF refs = <<>> THEN <<>>
    ELSE TryResolve(refs[1], baseUrl) \o ResolveAll(Tail(refs), baseUrl)

RECURSIVE Flatten(_)
Flatten(seqs) == IF seqs = <<>> THEN <<>> ELSE seqs[1] \o Flatten(Tail(seqs))

StandardRefs(el) ==
    IF IsStandardAsset(el)
    THEN <<IF el.src # NoUrl THEN el.src ELSE el.href>>
    ELSE <<>>

LazyRefs(el) ==
    (IF LazyRef(el) # NoUrl THEN <<LazyRef(el)>> ELSE <<>>)
        \o SrcsetRefs(el.dataSrcset)

ElSrcsetRefs(el) == SrcsetRefs(el.srcset)

ElStyleRefs(el) == StyleRefs(el.style)

\* parseNoscriptAssets throws a ReferenceError (the undeclared _$$) as soon
\* as a <noscript> with content is visited.
NoscriptThrows(html) ==
    \E i \in 1..Len(html) : html[i].tag = "noscript" /\ html[i].inner # <<>>

\* The references one selector pass of collectHtmlAssetUrls takes from an
\* element.
RefsOf(el, pass) ==
    CASE pass = "standard" -> StandardRefs(el)
      [] pass = "srcset"   -> ElSrcsetRefs(el)
      [] pass = "lazy"     -> LazyRefs(el)
      [] pass = "style"    -> ElStyleRefs(el)

\* One selector pass over the elements of the document, in document order.
PassRefs(html, pass) == Flatten([i \in 1..Len(html) |-> RefsOf(html[i], pass)])

\* collectHtmlAssetUrls: Array.from(assets).
collectHtmlAssetUrls(html, baseUrl) ==
    Dedup(ResolveAll(PassRefs(html, "standard")
                         \o PassRefs(html, "srcset")
                         \o PassRefs(html, "lazy")
                         \o PassRefs(html, "style"), baseUrl))

(***************************************************************************)
(* urlToLocalRel: a JS Map, kept as its entries <<key, value>> in          *)
(* insertion order.  set() of a present key keeps the key's place.         *)
(***************************************************************************)
MapKeys(m) == {m[i][1] : i \in 1..Len(m)}

MapGet(m, k) ==
    IF k \in MapKeys(m)
    THEN m[CHOOSE i \in 1..Len(m) : m[i][1] = k][2]
    ELSE NoUrl

MapSet(m, k, v) ==
    IF k \in MapKeys(m)
    THEN [i \in 1..Len(m) |-> IF m[i][1] = k THEN <<k, v>> ELSE m[i]]
    ELSE Append(m, <<k, v>>)

\* urlToLocalRel.get(new URL(v, baseUrl).toString()), none when v does not
\* parse or has no entry.
LocalOf(v, baseUrl, map) ==
    IF CanResolve(v) THEN MapGet(map, ResolveUrl(v, baseUrl)) ELSE NoUrl

(***************************************************************************)
(* rewriteHtmlReferencesToLocal, element by element in the order of its    *)
(* passes.                                                                 *)
(***************************************************************************)
\* setLocal(el, 'src') on img, video, audio, source and script elements.
SetLocalSrc(el, baseUrl, map) ==
    IF /\ el.tag \in {"img", "video", "audio", "source", "script"}
       /\ el.src # NoUrl
       /\ LocalOf(el.src, baseUrl, map) # NoUrl
    THEN [el EXCEPT !.src = LocalOf(el.src, baseUrl, map)]
    ELSE el

\* setLocal(el, 'href') on icon, image preload and manifest links.
SetLocalHref(el, baseUrl, map) ==
    IF /\ el.tag = "link"
       /\ el.href # NoUrl
       /\ el.rel \in {"icon", "apple-touch-icon", "manifest"} \/ el.as = "image"
       /\ LocalOf(el.href, baseUrl, map) # NoUrl
    THEN [el EXCEPT !.href = LocalOf(el.href, baseUrl, map)]
    ELSE el

\* A lazy-load pass that rewrites the data-src attribute itself as well.
AdoptLazyRewriting(el, baseUrl, map) ==
    IF /\ LazyRef(el) # NoUrl
       /\ LocalOf(LazyRef(el), baseUrl, map) # NoUrl
    THEN [el EXCEPT !.src = IF @ = NoUrl THEN LocalOf(LazyRef(el), baseUrl, map) ELSE @,
                    !.dataSrc = IF @ # NoUrl THEN LocalOf(LazyRef(el), baseUrl, map) ELSE @]
    ELSE el

\* "If data-src existed, adopt it to src when local is present".
AdoptLazy(el, baseUrl, map) ==
    IF /\ LazyRef(el) # NoUrl
       /\ LocalOf(LazyRef(el), baseUrl, map) # NoUrl
       /\ el.src = NoUrl
    THEN [el EXCEPT !.src = LocalOf(LazyRef(el), baseUrl, map)]
    ELSE el

\* A srcset rewrite that writes the local path without the descriptor.
RewriteSrcsetBare(srcset, baseUrl, map) ==
    [i \in 1..Len(srcset) |->
        IF LocalOf(srcset[i][1], baseUrl, map) # NoUrl
        THEN <<LocalOf(srcset[i][1], baseUrl, map), "">>
        ELSE srcset[i]]

\* rewriteSrcset on one attribute value: a candidate keeps its descriptor.
RewriteSrcsetValue(srcset, baseUrl, map) ==
    [i \in 1..Len(srcset) |->
        IF LocalOf(srcset[i][1], baseUrl, map) # NoUrl
        THEN <<LocalOf(srcset[i][1], baseUrl, map), srcset[i][2]>>
        ELSE srcset[i]]

\* The url(...) rewrite of one style attribute.
RewriteStyleValue(style, baseUrl, map) ==
    [i \in 1..Len(style) |->
        IF /\ IsUrlToken(style[i])
           /\ ~IsDataRef(ValueOf(style[i]))
           /\ LocalOf(ValueOf(style[i]), baseUrl, map) # NoUrl
        THEN Tok(KindOf(style[i]), LocalOf(ValueOf(style[i]), baseUrl, map))
        ELSE style[i]]

RewriteElement(el, baseUrl, map) ==
    LET a == SetLocalHref(SetLocalSrc(el, baseUrl, map), baseUrl, map)
        b == AdoptLazy(a, baseUrl, map)
    IN  [b EXCEPT !.srcset     = RewriteSrcsetValue(@, baseUrl, map),
                  !.dataSrcset = RewriteSrcsetValue(@, baseUrl, map),
                  !.style      = RewriteStyleValue(@, baseUrl, map)]

\* $('link[rel~="stylesheet"]').remove(); $('style').remove();
IsRemovedStyleSource(el) ==
    \/ el.tag = "link" /\ el.rel = "stylesheet"
    \/ el.tag = "style"

\* <link rel="stylesheet" href="style.css">
StyleCssLink == [El("link") EXCEPT !.rel = "stylesheet", !.href = <<"style.css">>]

RECURSIVE KeepElements(_)
KeepElements(html) ==
    IF html = <<>> THEN <<>>
    ELSE (IF IsRemovedStyleSource(html[1]) THEN <<>> ELSE <<html[1]>>)
             \o KeepElements(Tail(html))

rewriteHtmlReferencesToLocal(html, baseUrl, map) ==
    Append(KeepElements([i \in 1..Len(html) |-> RewriteElement(html[i], baseUrl, map)]),
           StyleCssLink)

(***************************************************************************)
(* The CSS pass of main: for every map entry in insertion order,           *)
(* localCss.split(remote).join(localRel), applied to the text of every     *)
(* token.                                                                  *)
(***************************************************************************)
RECURSIVE ReplaceEntries(_, _)
ReplaceEntries(text, map) ==
    IF map = <<>> THEN text
    ELSE ReplaceEntries(SplitJoin(text, map[1][1], map[1][2]), Tail(map))

RewriteCssToLocal(cssText, map) ==
    [i \in 1..Len(cssText) |->
        Tok(KindOf(cssText[i]), ReplaceEntries(ValueOf(cssText[i]), map))]

(***************************************************************************)
(* The tree of import fetches of one inlineCssImports call.  imp maps the  *)
(* absolute URL of every @import task started so far to                    *)
(*   st    "pending" | "fail" | "ok"                                       *)
(*   depth the depth its body is inlined with (the parent's depth - 1)     *)
(*   fin   the final URL of the fetched file                               *)
(*   inv   the nested invocation: its text, tasks and fallbacks            *)
(***************************************************************************)
NoInv == [text |-> <<>>, base |-> NoUrl, depth |-> 0, tasks |-> <<>>, fbs |-> <<>>]

InvOf(started) ==
    [text |-> started.text, base |-> started.base, depth |-> started.depth,
     tasks |-> started.tasks, fbs |-> started.fbs]

\* Whether the promise of the import task of abs has settled.
RECURSIVE TaskSettled(_, _)
TaskSettled(imp, abs) ==
    \/ imp[abs].st = "fail"
    \/ /\ imp[abs].st = "ok"
       /\ \A i \in 1..Len(imp[abs].inv.tasks) :
              TaskSettled(imp, imp[abs].inv.tasks[i][2])

\* Whether Promise.all(tasks) of an invocation has settled.
InvSettled(imp, inv) ==
    \A i \in 1..Len(inv.tasks) : TaskSettled(imp, inv.tasks[i][2])

\* for (const r of results) out = out.replace(r.raw, r.rep)
RECURSIVE ApplyResults(_, _)
ApplyResults(out, results) ==
    IF results = <<>> THEN out
    ELSE ApplyResults(ReplaceFirst(out, results[1][1], results[1][2]), Tail(results))

\* The value an import task resolves to (rep) and the text an invocation
\* returns, once settled.
RECURSIVE TaskRep(_, _)
RECURSIVE InlinedText(_, _)
TaskRep(imp, abs) ==
    IF imp[abs].st = "ok"
    THEN <<Tok("inl", imp[abs].fin)>> \o InlinedText(imp, imp[abs].inv)
             \o <<Tok("end", <<>>)>>
    ELSE <<Tok("fail", abs)>>

InlinedText(imp, inv) ==
    ApplyResults(inv.text,
        [i \in 1..Len(inv.tasks) |-> <<inv.tasks[i][1], TaskRep(imp, inv.tasks[i][2])>>]
            \o inv.fbs)

(***************************************************************************)
(* The pages and sites of the model.  A scenario is the document the entry *)
(* URL serves, the CSS text every stylesheet URL of the site serves, and   *)
(* the redirects of the site (pairs <<requested, final>>).                 *)
(***************************************************************************)
PageUrl == <<Origin, "p">>

\* The entry page after a redirect into a directory.
PageUrlMoved == <<Origin, "d/", "p">>

\* Asset URLs; Uf is a proper prefix of Ufw.
Uf == <<Origin, "f">>

Ufw == <<Origin, "f", ".woff">>

Ua == <<Origin, "a", ".png">>

Udata == <<"data:", "x">>

\* Stylesheet URLs.
Sa == <<Origin, "A", ".css">>

Sb == <<Origin, "B", ".css">>

Sc == <<Origin, "C", ".css">>

Sd == <<Origin, "D", ".css">>

Import(href) == Tok("import", href)

Url(ref) == Tok("url", ref)

Rule(name) == Tok("rule", <<name>>)

LinkCss(href) == [El("link") EXCEPT !.rel = "stylesheet", !.href = href]

StyleEl(css) == [El("style") EXCEPT !.css = css]

ImgSrc(src) == [El("img") EXCEPT !.src = src]

ImgLazy(ref) == [El("img") EXCEPT !.dataSrc = ref]

Site(a, b, c, d) == (Sa :> a) @@ (Sb :> b) @@ (Sc :> c) @@ (Sd :> d)

NoSite == Site(<<>>, <<>>, <<>>, <<>>)

Scenario(name, doc, css, redir) ==
    [name |-> name, doc |-> doc, css |-> css, redir |-> redir]

\* Two url() references in an inline block, one a prefix of the other.
ScPrefix == Scenario("prefix", <<StyleEl(<<Url(Uf), Url(Ufw)>>)>>, NoSite, {})

\* A imports A.
ScSelf == Scenario("self", <<LinkCss(Sa)>>,
              Site(<<Import(Sa), Rule("a")>>, <<>>, <<>>, <<>>), {})

\* A imports B, B imports A.
ScPair == Scenario("pair", <<LinkCss(Sa)>>,
              Site(<<Import(Sb), Rule("a")>>, <<Import(Sa), Rule("b")>>, <<>>, <<>>), {})

\* The chain A -> B -> C -> D.
ScChain == Scenario("chain", <<LinkCss(Sa)>>,
               Site(<<Import(Sb)>>, <<Import(Sc)>>, <<Import(Sd)>>, <<Url(Ua)>>), {})

\* A imports B and D; B imports C; C imports D.
ScDiamond == Scenario("diamond", <<LinkCss(Sa)>>,
                 Site(<<Import(Sb), Import(Sd)>>, <<Import(Sc)>>, <<Import(Sd)>>,
                      <<Rule("d")>>), {})

\* An inline block importing B, which imports C.
ScInline == Scenario("inline", <<StyleEl(<<Import(Sb), Rule("i")>>)>>,
                Site(<<>>, <<Import(Sc)>>, <<Rule("c")>>, <<>>), {})

\* One image via src, one via data-src, one via both, and the same URL in
\* CSS.
ScLazy == Scenario("lazy",
              <<ImgSrc(<<"/", "a", ".png">>), ImgLazy(Ua), StyleEl(<<Url(Ua)>>),
                [ImgSrc(Ua) EXCEPT !.dataSrc = Ua]>>,
              NoSite, {<<PageUrl, PageUrlMoved>>})

\* Two linked stylesheets, an inline block and an image; the asset of the
\* second stylesheet redirects to the image.
ScMulti == Scenario("multi",
               <<LinkCss(Sa), LinkCss(<<"B", ".css">>), StyleEl(<<Rule("i")>>),
                 ImgSrc(Ua)>>,
               Site(<<Rule("a")>>, <<Url(<<"f">>)>>, <<>>, <<>>), {<<Uf, Ua>>})

\* A <noscript> fallback image.
ScNoscript == Scenario("noscript",
                  <<ImgSrc(Ua), [El("noscript") EXCEPT !.inner = <<ImgSrc(Uf)>>]>>,
                  NoSite, {})

\* A data: image beside a fetched one.
ScData == Scenario("data", <<ImgSrc(Udata), ImgSrc(Ua)>>, NoSite, {})

\* Three images, and one of them again in CSS after its prefix.
ScShared == Scenario("shared",
                <<ImgSrc(Uf), ImgSrc(Ufw), ImgSrc(Ua), StyleEl(<<Url(Ufw)>>)>>,
                NoSite, {})

\* A stylesheet preloaded with <link rel="preload" as="style">, a linked
\* one and an inline block.
ScPreload == Scenario("preload",
                 <<[El("link") EXCEPT !.rel = "preload", !.as = "style", !.href = Sa],
                   LinkCss(Sb), StyleEl(<<Rule("i")>>)>>,
                 Site(<<Rule("a")>>, <<Rule("b")>>, <<>>, <<>>), {})

\* An image with a srcset, an inline style and an icon link, over two
\* assets.
ScAttrs == Scenario("attrs",
               <<[ImgSrc(Ua) EXCEPT !.srcset = <<<<Ua, "1x">>, <<Uf, "2x">>>>],
                 [El("div") EXCEPT !.style = <<Rule("x"), Url(Uf)>>],
                 [El("link") EXCEPT !.rel = "icon", !.href = <<"/", "a", ".png">>]>>,
               NoSite, {})

Scenarios ==
    {ScPrefix, ScSelf, ScPair, ScChain, ScDiamond, ScInline, ScLazy, ScMulti,
     ScNoscript, ScData, ScShared, ScPreload, ScAttrs}

(***************************************************************************)
(* State of one run of main().                                             *)
(***************************************************************************)
VARIABLES
    scn,            \* the page and site this run meets
    argOk,          \* whether the command line URL normalizes (normalizeUrl)
    limit,          \* flags.concurrency
    htmlRes,        \* what the server answers for the entry page
    pc,             \* where main() is
    dirs,           \* the directory names that exist: 0 is base, n is base-n
    files,          \* the files written: <<directory, path>> -> content
    folder,         \* main: folder
    probe,          \* uniqueFolderName: the suffix being probed
    run,            \* which run of the program this is, counted from 1
    pageUrl,        \* page.finalUrl
    htmlAssetUrls,  \* main: htmlAssetUrls
    sheets,         \* collectCssAndAssets: stylesheetUrls
    blocks,         \* collectCssAndAssets: the inline blocks
    cssK,           \* collectCssAndAssets: the stylesheet or block being done
    cssPc,          \* collectCssAndAssets: "idle", "fetchTop", "inlining", "done"
    root,           \* the top inlineCssImports invocation awaited
    rootHdr,        \* the provenance comment of the block being done
    imp,            \* the @import tasks started so far
    visited,        \* collectCssAndAssets: visited
    cssAssets,      \* collectCssAndAssets: cssAssets, in insertion order
    parts,          \* collectCssAndAssets: parts
    topSt,          \* what the fetch of each linked stylesheet came to, in order
    reqs,           \* every request issued: <<kind, url>> -> how many times
    urls,           \* main: allAssetUrls, the downloader's input
    out,            \* downloadWithConcurrency: out
    nextI,          \* downloadWithConcurrency: i
    wk,             \* downloadWithConcurrency: the index each worker awaits, 0 when over
    writes,         \* how many times each position of out was written
    saveIdx,        \* main: the result the save loop is at
    urlToLocalRel,  \* main: urlToLocalRel
    localCss,       \* main: localCss as written to style.css
    finalHtml,      \* main: finalHtml as written to index.html
    peerPc,         \* where a second process running main() is, "none" without one
    peerProbe,      \* the second process, uniqueFolderName: the suffix being probed
    peerFolder,     \* the second process, main: folder
    text,           \* tokenizer App: text
    ids,            \* tokenizer App: ids
    decoded,        \* tokenizer App: decoded
    t2i,            \* SyllableTokenizer: t2i
    i2t,            \* SyllableTokenizer: i2t
    nextId,         \* SyllableTokenizer: nextId
    encoded,        \* the text ids was encoded from, NoText once ids was edited or cleared
    decodedOf,      \* the text the decoded ids had been encoded from, or NoText
    clicks,         \* how many buttons of the App were clicked
    edits,          \* how many times a text area of the App was edited
    uploadedFiles,  \* upload server: uploadedFiles
    posts,          \* upload server: each POST /index request, where its handler stands
    listed          \* upload server: the body of the last GET /files response

inputVars == <<scn, argOk, limit, htmlRes>>

fsVars == <<dirs, files, folder, probe, run>>

cssVars == <<sheets, blocks, cssK, cssPc, root, rootHdr, imp, visited, cssAssets, parts,
            topSt>>

dlVars == <<urls, out, nextI, wk, writes>>

outVars == <<saveIdx, urlToLocalRel, localCss, finalHtml>>

peerVars == <<peerPc, peerProbe, peerFolder>>

tokVars == <<text, ids, decoded, t2i, i2t, nextId, encoded, decodedOf, clicks, edits>>

srvVars == <<uploadedFiles, posts, listed>>

asideVars == <<peerVars, tokVars, srvVars>>

mainVars == <<inputVars, fsVars, cssVars, dlVars, outVars, pc, pageUrl, htmlAssetUrls, reqs>>

vars == <<mainVars, asideVars>>

(***************************************************************************)
(* The network.                                                            *)
(***************************************************************************)
\* The final URLs a request of url can end at (res.request.res.responseUrl).
FinalsOf(url) == {url} \cup {p[2] : p \in {q \in scn.redir : q[1] = url}}

\* Content types of a text response; the second is not text/css but passes
\* the /text\/css|; ?charset=/ test.
TextTypes == {"text/css", "text/html; charset=utf-8", "text/plain"}

IsCssLike(ct) == ct \in {"text/css", "text/html; charset=utf-8"}

\* Content types of an asset response.
AssetTypes == {"image/png", "", "application/javascript", "font/woff"}

\* What one GET can come to: a 2xx response, a non-2xx status (validateStatus
\* never throws, the fetch wrappers do), or a network error or timeout.
Ok(fin, ct) == [st |-> "ok", fin |-> fin, ct |-> ct]

HttpError == [st |-> "http", fin |-> NoUrl, ct |-> ""]

NetError == [st |-> "net", fin |-> NoUrl, ct |-> ""]

Failures == {HttpError, NetError}

\* Only the URLs of the site answer 2xx.
Served(url) == url \in DOMAIN scn.css

TextOutcomes(url) ==
    Failures \cup
        (IF Served(url)
         THEN {Ok(f, t) : f \in FinalsOf(url), t \in TextTypes}
         ELSE {})

AssetOutcomes(url) ==
    Failures \cup {Ok(f, t) : f \in FinalsOf(url), t \in AssetTypes}

\* The error message of a thrown fetch.
MessageOf(o) == IF o.st = "http" THEN "Non-OK HTTP 404" ELSE "network error"

\* The body a 2xx response of a stylesheet carries.
BodyOf(fin) == IF fin \in DOMAIN scn.css THEN scn.css[fin] ELSE <<>>

AddReq(r, q) ==
    IF q \in DOMAIN r THEN [r EXCEPT ![q] = @ + 1] ELSE r @@ (q :> 1)

RECURSIVE AddReqs(_, _, _)
AddReqs(r, kind, us) ==
    IF us = <<>> THEN r ELSE AddReqs(AddReq(r, <<kind, us[1]>>), kind, Tail(us))

ReqCount(q) == IF q \in DOMAIN reqs THEN reqs[q] ELSE 0

(***************************************************************************)
(* collectCssAndAssets.  Its state is gathered in a record so that the     *)
(* code run by one event, up to the next await of a fetch, is one step.    *)
(***************************************************************************)
CssNow ==
    [k |-> cssK, pc |-> cssPc, root |-> root, hdr |-> rootHdr, imp |-> imp,
     visited |-> visited, assets |-> cssAssets, parts |-> parts, reqs |-> reqs]

SetCss(c) ==
    /\ cssK' = c.k
    /\ cssPc' = c.pc
    /\ root' = c.root
    /\ rootHdr' = c.hdr
    /\ imp' = c.imp
    /\ visited' = c.visited
    /\ cssAssets' = c.assets
    /\ parts' = c.parts
    /\ reqs' = c.reqs

\* The tasks pushed by one scan: each starts its fetchText at once.
LaunchTasks(impf, tasks, depth) ==
    LET new == {tasks[i][2] : i \in 1..Len(tasks)}
    IN  [u \in DOMAIN impf \cup new |->
            IF u \in new
            THEN [st |-> "pending", depth |-> depth, fin |-> NoUrl, inv |-> NoInv]
            ELSE impf[u]]

TaskUrls(tasks) == [i \in 1..Len(tasks) |-> tasks[i][2]]

\* rewriteCssUrlsToAbs and then inlineCssImports(..., depth, ...) up to its
\* await, on the collector's sets.
Inlining(c, css, base, depth) ==
    LET started == StartInline(rewriteCssUrlsToAbs(css, base), base, depth, c.visited)
    IN  [c |-> [c EXCEPT !.assets = AddAll(@, CollectedBy(css, base)),
                         !.visited = started.visited,
                         !.imp = LaunchTasks(@, started.tasks, depth - 1),
                         !.reqs = AddReqs(@, "css", TaskUrls(started.tasks))],
         inv |-> InvOf(started)]

\* Depths of inlineCssImports for a linked stylesheet and for an inline block.
LinkedDepth == 2

InlineDepth == 1

\* The loops of collectCssAndAssets from item c.k on, up to the next await
\* that does not settle at once.
RECURSIVE CssContinue(_, _, _, _)
RECURSIVE CssAfterRoot(_, _, _, _)
CssContinue(c, ss, bs, base) ==
    IF c.k > Len(ss) + Len(bs) THEN [c EXCEPT !.pc = "done"]
    ELSE IF c.k <= Len(ss)
    THEN [c EXCEPT !.pc = "fetchTop", !.reqs = AddReq(@, <<"css", ss[c.k]>>)]
    ELSE LET go == Inlining(c, bs[c.k - Len(ss)], base, InlineDepth)
         IN  CssAfterRoot([go.c EXCEPT !.root = go.inv, !.hdr = Tok("inlinehdr", base)],
                          ss, bs, base)

CssAfterRoot(c, ss, bs, base) ==
    IF InvSettled(c.imp, c.root)
    THEN CssContinue([c EXCEPT !.parts = Append(@, <<c.hdr>> \o InlinedText(c.imp, c.root)),
                               !.k = @ + 1,
                               !.root = NoInv],
                     ss, bs, base)
    ELSE [c EXCEPT !.pc = "inlining"]

\* A collector whose failed stylesheet leaves no trace in parts.
CssTopDoneSilent(c, ss, bs, base, o) ==
    IF o.st # "ok"
    THEN CssContinue([c EXCEPT !.k = @ + 1], ss, bs, base)
    ELSE IF ~IsCssLike(o.ct) /\ ExtOf(o.fin) # ".css"
    THEN CssContinue([c EXCEPT !.parts = Append(@, <<Tok("noncss", o.fin)>>),
                               !.k = @ + 1], ss, bs, base)
    ELSE LET go == Inlining(c, BodyOf(o.fin), o.fin, LinkedDepth)
         IN  CssAfterRoot([go.c EXCEPT !.root = go.inv, !.hdr = Tok("hdr", o.fin)],
                          ss, bs, base)

\* A collector that puts the comment of a failed stylesheet first.
CssTopDoneFront(c, ss, bs, base, o) ==
    IF o.st # "ok"
    THEN CssContinue([c EXCEPT !.parts = <<<<Tok("failedcss", ss[c.k])>>>> \o @,
                               !.k = @ + 1], ss, bs, base)
    ELSE IF ~IsCssLike(o.ct) /\ ExtOf(o.fin) # ".css"
    THEN CssContinue([c EXCEPT !.parts = Append(@, <<Tok("noncss", o.fin)>>),
                               !.k = @ + 1], ss, bs, base)
    ELSE LET go == Inlining(c, BodyOf(o.fin), o.fin, LinkedDepth)
         IN  CssAfterRoot([go.c EXCEPT !.root = go.inv, !.hdr = Tok("hdr", o.fin)],
                          ss, bs, base)

\* The top-level fetchText of stylesheet c.k came to o.
CssTopDone(c, ss, bs, base, o) ==
    IF o.st # "ok"
    THEN CssContinue([c EXCEPT !.parts = Append(@, <<Tok("failedcss", ss[c.k])>>),
                               !.k = @ + 1], ss, bs, base)
    ELSE IF ~IsCssLike(o.ct) /\ ExtOf(o.fin) # ".css"
    THEN CssContinue([c EXCEPT !.parts = Append(@, <<Tok("noncss", o.fin)>>),
                               !.k = @ + 1], ss, bs, base)
    ELSE LET go == Inlining(c, BodyOf(o.fin), o.fin, LinkedDepth)
         IN  CssAfterRoot([go.c EXCEPT !.root = go.inv, !.hdr = Tok("hdr", o.fin)],
                          ss, bs, base)

\* The fetchText of the import task of abs came to o.
CssImportDone(c, ss, bs, base, abs, o) ==
    IF o.st # "ok"
    THEN CssAfterRoot([c EXCEPT !.imp[abs].st = "fail"], ss, bs, base)
    ELSE LET go == Inlining(c, BodyOf(o.fin), o.fin, c.imp[abs].depth)
         IN  CssAfterRoot([go.c EXCEPT !.imp[abs].st = "ok",
                                       !.imp[abs].fin = o.fin,
                                       !.imp[abs].inv = go.inv],
                          ss, bs, base)

\* parts.join('\n')
CssTextOf(ps) == Flatten(ps)

\* main step 5: the deduplicated http(s) URLs of both discoveries.
AllAssetUrls(htmlUrls, cssUrls) ==
    Dedup(SelectSeq(htmlUrls \o cssUrls, IsHttp))

(***************************************************************************)
(* downloadWithConcurrency.                                                *)
(***************************************************************************)
EmptySlot ==
    [filled |-> FALSE, ok |-> FALSE, url |-> NoUrl, finalUrl |-> NoUrl,
     contentType |-> "", error |-> ""]

\* out[idx] = { ok:true, url, finalUrl, contentType, buf }
OkResult(url, o) ==
    [filled |-> TRUE, ok |-> TRUE, url |-> url, finalUrl |-> o.fin,
     contentType |-> o.ct, error |-> ""]

\* out[idx] = { ok:false, url, error: e.message }
FailResult(url, o) ==
    [filled |-> TRUE, ok |-> FALSE, url |-> url, finalUrl |-> NoUrl,
     contentType |-> "", error |-> MessageOf(o)]

ResultOf(url, o) == IF o.st = "ok" THEN OkResult(url, o) ELSE FailResult(url, o)

\* A pool that ignores the limit: one worker per URL.
NumWorkersPerUrl(lim, n) == IF n = 0 THEN 1 ELSE n

\* Math.min(limit, urls.length || 1)
NumWorkers(lim, n) == Min2(lim, IF n = 0 THEN 1 ELSE n)

\* worker(), from the test of its while loop to its next await: it claims
\* the next index and starts fetchBinary, or it is over.
WorkerLoop(d, w, us) ==
    IF d.nextI < Len(us)
    THEN [nextI |-> d.nextI + 1,
          wk    |-> [d.wk EXCEPT ![w] = d.nextI + 1],
          reqs  |-> AddReq(d.reqs, <<"asset", us[d.nextI + 1]>>)]
    ELSE [d EXCEPT !.wk[w] = 0]

\* A worker whose failed fetch escapes the loop: it stops at the first
\* failure instead of going on to the next index.
AfterResultStopping(d, w, us, o) ==
    IF o.st = "ok" THEN WorkerLoop(d, w, us) ELSE [d EXCEPT !.wk[w] = 0]

\* worker() after out[idx] is written, in the try or in the catch: the loop
\* goes on whatever the fetch came to.
AfterResult(d, w, us, o) == WorkerLoop(d, w, us)

\* Array.from({ length }, worker): the workers are started one after the
\* other, each running up to its first await.
RECURSIVE SpawnWorkers(_, _, _, _)
SpawnWorkers(d, w, count, us) ==
    IF w > count THEN d
    ELSE SpawnWorkers(WorkerLoop(d, w, us), w + 1, count, us)

StartPool(lim, us, r) ==
    SpawnWorkers([nextI |-> 0,
                  wk    |-> [w \in 1..NumWorkers(lim, Len(us)) |-> 0],
                  reqs  |-> r],
                 1, NumWorkers(lim, Len(us)), us)

\* A worker that reads the shared counter after its await instead of the
\* index it claimed before it.
SlotOfShared(w) == IF nextI < Len(urls) THEN nextI + 1 ELSE nextI

\* The index worker w writes when its fetch comes back: idx, claimed before
\* the await.
SlotOf(w) == wk[w]

InFlight == {w \in DOMAIN wk : wk[w] # 0}

(***************************************************************************)
(* main().                                                                 *)
(***************************************************************************)
\* What fetchHTML can come to; "empty" is a 2xx response with no body.
EmptyBody == [st |-> "empty", fin |-> NoUrl, ct |-> ""]

\* The status codes of the entry page's response that the model tries.
HtmlStatuses == {199, 200, 299, 300, 404}

\* What client.get answers for the entry page: no response (a network
\* error or timeout), or a response with its status, its body and the URL
\* it ended at.
NoResponse == [status |-> 0, body |-> "", responseUrl |-> NoUrl]

HtmlResponses ==
    {NoResponse} \cup
        [status : HtmlStatuses, body : {"", "<html>"}, responseUrl : FinalsOf(PageUrl)]

\* A fetchHTML that takes an empty body for a page.
fetchHTMLAnyBody(res, url) ==
    IF res = NoResponse THEN NetError
    ELSE IF res.status < 200 \/ res.status >= 300 THEN HttpError
    ELSE Ok(IF res.responseUrl # NoUrl THEN res.responseUrl ELSE url, "text/html")

\* fetchHTML(url, client) once client.get has settled with res.
fetchHTML(res, url) ==
    IF res = NoResponse THEN NetError
    ELSE IF res.status < 200 \/ res.status >= 300 THEN HttpError
    ELSE IF res.body = "" THEN EmptyBody
    ELSE Ok(IF res.responseUrl # NoUrl THEN res.responseUrl ELSE url, "text/html")

HtmlOutcomes == {fetchHTML(htmlRes, PageUrl)}

\* The state of a process that has just started.
RunInit ==
    /\ pc = "start"
    /\ folder = -1
    /\ probe = 0
    /\ pageUrl = NoUrl
    /\ htmlAssetUrls = <<>>
    /\ sheets = <<>>
    /\ blocks = <<>>
    /\ cssK = 1
    /\ cssPc = "idle"
    /\ root = NoInv
    /\ rootHdr = Tok("", <<>>)
    /\ imp = [u \in {} |-> NoInv]
    /\ visited = {}
    /\ cssAssets = <<>>
    /\ parts = <<>>
    /\ topSt = <<>>
    /\ reqs = [q \in {} |-> 0]
    /\ urls = <<>>
    /\ out = <<>>
    /\ nextI = 0
    /\ wk = <<>>
    /\ writes = <<>>
    /\ saveIdx = 1
    /\ urlToLocalRel = <<>>
    /\ localCss = <<>>
    /\ finalHtml = <<>>

\* No second process runs beside this one.
PeerAbsent ==
    /\ peerPc = "none"
    /\ peerProbe = 0
    /\ peerFolder = -1

(***************************************************************************)
(* The upload server: the handlers of POST /index and GET /files over the  *)
(* uploadedFiles array of the process.                                     *)
(***************************************************************************)
\* req.file.originalname of the uploads.
FileNames == {"a.pdf", "b.pdf"}

\* req.file of a request that carries no file.
NoFile == ""

\* A request that has not arrived yet.
NoPost == [pc |-> "none", file |-> NoFile, status |-> 0]

\* The server has just started listening.
ServerInit ==
    /\ uploadedFiles = <<>>
    /\ posts = [i \in 1..MaxPosts |-> NoPost]
    /\ listed = <<>>

(***************************************************************************)
(* The syllable tokenizer App.  A text is a string; its characters are     *)
(* counted from 1, where the code counts from 0.                           *)
(***************************************************************************)
LOWER == "abcdefghijklmnopqrstuvwxyz"

UPPER == "ABCDEFGHIJKLMNOPQRSTUVWXYZ"

\* word[i], "" where the code reads undefined.
CharAt(word, i) == IF 1 <= i /\ i <= Len(word) THEN SubSeq(word, i, i) ELSE ""

\* /[a-z]/.test(ch) for one character or none.
IsLowerLetter(ch) == \E i \in 1..Len(LOWER) : CharAt(LOWER, i) = ch

\* String.prototype.toLowerCase on one character.
LowerChar(ch) ==
    IF \E i \in 1..Len(UPPER) : CharAt(UPPER, i) = ch
    THEN CharAt(LOWER, CHOOSE i \in 1..Len(UPPER) : CharAt(UPPER, i) = ch)
    ELSE ch

\* /[A-Za-z]/.test(ch)
IsLetter(ch) == IsLowerLetter(LowerChar(ch))

RECURSIVE toLowerCase(_)
toLowerCase(s) == IF s = "" THEN "" ELSE LowerChar(Head(s)) \o toLowerCase(Tail(s))

VOWELS == {"a", "e", "i", "o", "u"}

DIPHTHONGS ==
    {"ai", "au", "ea", "ee", "ei", "eu", "ie", "oa", "oe", "oi", "oo", "ou", "ue", "ui"}

COMMON_PREFIXES ==
    <<"anti", "auto", "bi", "co", "de", "dis", "en", "em", "ex", "extra", "hyper", "il",
      "im", "in", "inter", "ir", "micro", "mid", "mis", "mono", "non", "over", "pre",
      "post", "re", "semi", "sub", "super", "tele", "trans", "tri", "ultra", "un",
      "under">>

COMMON_SUFFIXES ==
    <<"able", "ible", "age", "al", "ance", "ence", "ant", "ent", "ary", "ery", "ed", "er",
      "est", "ful", "hood", "ing", "ion", "tion", "ation", "ity", "ive", "less", "ly",
      "ment", "ness", "ous", "ship", "sion", "ward", "wise", "y">>

\* isVowel(ch, i, word)
isVowel(ch, i, word) ==
    LET c           == LowerChar(ch)
        prev        == LowerChar(CharAt(word, i - 1))
        next        == LowerChar(CharAt(word, i + 1))
        prevIsV     == IsLowerLetter(prev) /\ prev \in VOWELS \cup {"y"}
        nextIsV     == IsLowerLetter(next) /\ next \in VOWELS \cup {"y"}
    IN  IF ch = "" THEN FALSE
        ELSE IF c \in VOWELS THEN TRUE
        ELSE IF c # "y" THEN FALSE
        ELSE IsLowerLetter(prev) /\ IsLowerLetter(next) /\ ~prevIsV /\ ~nextIsV

startsWith(s, p) == Len(p) <= Len(s) /\ SubSeq(s, 1, Len(p)) = p

endsWith(s, p) == Len(p) <= Len(s) /\ SubSeq(s, Len(s) - Len(p) + 1, Len(s)) = p

\* COMMON_PREFIXES.find(...): the first prefix that leaves two characters, ""
\* where the code has undefined.
PrefixOf(lower) ==
    LET hits == {i \in 1..Len(COMMON_PREFIXES) :
                     /\ startsWith(lower, COMMON_PREFIXES[i])
                     /\ Len(lower) - Len(COMMON_PREFIXES[i]) >= 2}
    IN  IF hits = {} THEN ""
        ELSE COMMON_PREFIXES[CHOOSE i \in hits : \A j \in hits : i <= j]

\* COMMON_SUFFIXES.find(...) with start characters already peeled.
SuffixOf(lower, start) ==
    LET hits == {i \in 1..Len(COMMON_SUFFIXES) :
                     /\ endsWith(lower, COMMON_SUFFIXES[i])
                     /\ Len(lower) - start - Len(COMMON_SUFFIXES[i]) >= 2}
    IN  IF hits = {} THEN ""
        ELSE COMMON_SUFFIXES[CHOOSE i \in hits : \A j \in hits : i <= j]

\* The first position from p on that holds a vowel, Len(w) + 1 without one.
NextVowel(w, p) ==
    LET at == {q \in p..Len(w) : isVowel(CharAt(w, q), q, w)}
    IN  IF at = {} THEN Len(w) + 1 ELSE CHOOSE q \in at : \A r \in at : q <= r

\* The while loop of syllabifyWord from position i of the core.
RECURSIVE Syllables(_, _, _)
Syllables(core, coreLower, i) ==
    IF i > Len(core) THEN <<>>
    ELSE LET j  == NextVowel(coreLower, i)
             k  == IF CharAt(coreLower, j) \o CharAt(coreLower, j + 1) \in DIPHTHONGS
                   THEN j + 2 ELSE j + 1
             c0 == NextVowel(coreLower, k)
             c  == IF c0 - k >= 2 THEN k + 1 ELSE c0
         IN  IF j <= Len(core)
             THEN <<SubSeq(core, i, c - 1)>> \o Syllables(core, coreLower, c)
             ELSE <<SubSeq(core, i, Len(core))>>

\* Array.prototype.filter(Boolean) on strings.
FilterBoolean(seq) == SelectSeq(seq, LAMBDA t : t # "")

\* syllabifyWord(raw)
syllabifyWord(raw) ==
    LET lower == toLowerCase(raw)
        pref  == PrefixOf(lower)
        start == Len(pref)
        suff  == SuffixOf(lower, start)
        end   == Len(lower) - Len(suff)
        pre   == SubSeq(raw, 1, start)
        suf   == SubSeq(raw, end + 1, Len(raw))
        core  == SubSeq(raw, start + 1, end)
    IN  IF raw = "" \/ \E i \in 1..Len(lower) : ~IsLowerLetter(CharAt(lower, i))
        THEN <<raw>>
        ELSE IF Len(core) = 0
        THEN FilterBoolean(<<IF pre # "" THEN pre ELSE raw, suf>>)
        ELSE FilterBoolean(<<pre>>)
                 \o Syllables(core, SubSeq(lower, start + 1, end), 1)
                 \o FilterBoolean(<<suf>>)

\* flush(): current cut at the lengths of its parts.
RECURSIVE SliceByLengths(_, _, _)
SliceByLengths(current, pieces, idx) ==
    IF pieces = <<>> THEN <<>>
    ELSE <<SubSeq(current, idx + 1, Min2(idx + Len(pieces[1]), Len(current)))>>
             \o SliceByLengths(current, Tail(pieces), idx + Len(pieces[1]))

flush(current) ==
    IF current = "" THEN <<>> ELSE SliceByLengths(current, syllabifyWord(current), 0)

\* The for loop of syllabify over the characters left, with current and tokens.
RECURSIVE SyllabifyFrom(_, _, _)
SyllabifyFrom(rest, current, tokens) ==
    IF rest = "" THEN tokens \o flush(current)
    ELSE IF IsLetter(Head(rest))
    THEN SyllabifyFrom(Tail(rest), current \o Head(rest), tokens)
    ELSE SyllabifyFrom(Tail(rest), "", (tokens \o flush(current)) \o <<Head(rest)>>)

\* syllabify(text)
syllabify(txt) == FilterBoolean(SyllabifyFrom(txt, "", <<>>))

\* Array.prototype.join("")
RECURSIVE JoinAll(_)
JoinAll(tokens) == IF tokens = <<>> THEN "" ELSE tokens[1] \o JoinAll(Tail(tokens))

\* The tokenizer object: its two maps and nextId.
NewTokenizer == [t2i |-> [t \in {} |-> 0], i2t |-> [n \in {} |-> ""], nextId |-> 0]

\* An _ensure that gives every token it is handed a new ID.
EnsureEachTime(tk, t) ==
    [t2i    |-> [x \in DOMAIN tk.t2i \cup {t} |-> IF x = t THEN tk.nextId ELSE tk.t2i[x]],
     i2t    |-> [n \in DOMAIN tk.i2t \cup {tk.nextId} |->
                    IF n = tk.nextId THEN t ELSE tk.i2t[n]],
     nextId |-> tk.nextId + 1]

\* _ensure(t): the tokenizer after the call; the ID returned is its t2i[t].
Ensure(tk, t) ==
    IF t \in DOMAIN tk.t2i THEN tk
    ELSE [t2i    |-> [x \in DOMAIN tk.t2i \cup {t} |->
                         IF x = t THEN tk.nextId ELSE tk.t2i[x]],
          i2t    |-> [n \in DOMAIN tk.i2t \cup {tk.nextId} |->
                         IF n = tk.nextId THEN t ELSE tk.i2t[n]],
          nextId |-> tk.nextId + 1]

\* encode(text): the map over the tokens, left to right.
RECURSIVE EncodeTokens(_, _, _)
EncodeTokens(tk, tokens, acc) ==
    IF tokens = <<>> THEN [tok |-> tk, ids |-> acc]
    ELSE EncodeTokens(Ensure(tk, tokens[1]), Tail(tokens),
                      Append(acc, Ensure(tk, tokens[1]).t2i[tokens[1]]))

encode(tk, txt) == EncodeTokens(tk, syllabify(txt), <<>>)

\* A decode that puts a space between the tokens.
RECURSIVE decodeSpaced(_, _)
decodeSpaced(tk, nums) ==
    IF nums = <<>> THEN ""
    ELSE (IF nums[1] \in DOMAIN tk.i2t THEN tk.i2t[nums[1]] ELSE "<UNK>")
             \o (IF Len(nums) > 1 THEN " " ELSE "") \o decodeSpaced(tk, Tail(nums))

\* decode(ids)
RECURSIVE decode(_, _)
decode(tk, nums) ==
    IF nums = <<>> THEN ""
    ELSE (IF nums[1] \in DOMAIN tk.i2t THEN tk.i2t[nums[1]] ELSE "<UNK>")
             \o decode(tk, Tail(nums))

\* The texts typed into the text area: the README's example and a few more.
Samples == {"unbeatable vs unbelievable!", "Happy 2day", "rhythm"}

Alphabet == {"a", "n", " "}

RECURSIVE TextsOfLen(_)
TextsOfLen(n) ==
    IF n = 0 THEN {""} ELSE {t \o ch : t \in TextsOfLen(n - 1), ch \in Alphabet}

Texts == Samples \cup UNION {TextsOfLen(n) : n \in 0..MaxText}

\* What the IDs area is edited to: the matches of /-?\d+/g, as numbers.
IdInputs == {<<0, 99>>, <<-1, 1, 0>>}

NoText == <<>>

Tokenizer == [t2i |-> t2i, i2t |-> i2t, nextId |-> nextId]

\* useRef(new SyllableTokenizer()) and the three useState of App.
AppInit ==
    /\ text = "unbeatable vs unbelievable!"
    /\ ids = <<>>
    /\ decoded = ""
    /\ t2i = NewTokenizer.t2i
    /\ i2t = NewTokenizer.i2t
    /\ nextId = NewTokenizer.nextId
    /\ encoded = NoText
    /\ decodedOf = NoText
    /\ clicks = 0
    /\ edits = 0

\* onChange of the text area.
SetText ==
    /\ edits < MaxEdits
    /\ edits' = edits + 1
    /\ text' \in Samples
    /\ UNCHANGED <<ids, decoded, t2i, i2t, nextId, encoded, decodedOf, clicks>>
    /\ UNCHANGED <<mainVars, peerVars, srvVars>>

\* onChange of the IDs area.
EditIds ==
    /\ edits < MaxEdits
    /\ edits' = edits + 1
    /\ ids' \in IdInputs
    /\ encoded' = NoText
    /\ UNCHANGED <<text, decoded, t2i, i2t, nextId, decodedOf, clicks>>
    /\ UNCHANGED <<mainVars, peerVars, srvVars>>

\* onEncode
onEncode ==
    /\ clicks < MaxClicks
    /\ clicks' = clicks + 1
    /\ \E r \in {encode(Tokenizer, text)} :
           /\ ids' = r.ids
           /\ t2i' = r.tok.t2i
           /\ i2t' = r.tok.i2t
           /\ nextId' = r.tok.nextId
    /\ encoded' = <<text>>
    /\ UNCHANGED <<text, decoded, decodedOf, edits>>
    /\ UNCHANGED <<mainVars, peerVars, srvVars>>

\* onDecode
onDecode ==
    /\ clicks < MaxClicks
    /\ clicks' = clicks + 1
    /\ decoded' = decode(Tokenizer, ids)
    /\ decodedOf' = encoded
    /\ UNCHANGED <<text, ids, t2i, i2t, nextId, encoded, edits>>
    /\ UNCHANGED <<mainVars, peerVars, srvVars>>

\* onReset: tok.reset(), setIds([]), setDecoded("").
onReset ==
    /\ clicks < MaxClicks
    /\ clicks' = clicks + 1
    /\ t2i' = NewTokenizer.t2i
    /\ i2t' = NewTokenizer.i2t
    /\ nextId' = 0
    /\ ids' = <<>>
    /\ decoded' = ""
    /\ encoded' = NoText
    /\ decodedOf' = NoText
    /\ UNCHANGED <<text, edits>>
    /\ UNCHANGED <<mainVars, peerVars, srvVars>>

\* The App is open on a text the user typed; no page is being cloned.
InitApp ==
    /\ scn = ScSelf
    /\ argOk = FALSE
    /\ limit = 1
    /\ htmlRes = NoResponse
    /\ dirs = {}
    /\ files = [x \in {} |-> <<>>]
    /\ run = 1
    /\ RunInit
    /\ ServerInit
    /\ PeerAbsent
    /\ text \in Texts
    /\ ids = <<>>
    /\ decoded = ""
    /\ t2i = NewTokenizer.t2i
    /\ i2t = NewTokenizer.i2t
    /\ nextId = NewTokenizer.nextId
    /\ encoded = NoText
    /\ decodedOf = NoText
    /\ clicks = 0
    /\ edits = 0

NextApp ==
    \/ SetText
    \/ EditIds
    \/ onEncode
    \/ onDecode
    \/ onReset

SpecApp == InitApp /\ [][NextApp]_vars

\* The directories present beforehand hold an index.html of an earlier
\* program run (run 0).
Init ==
    /\ scn \in Scenarios
    /\ argOk \in BOOLEAN
    /\ limit \in 1..MaxLimit
    /\ htmlRes \in HtmlResponses
    /\ dirs \in SUBSET (0..(MaxExisting - 1))
    /\ files = [x \in {<<d, <<"index.html">>>> : d \in dirs} |-> <<0, "html">>]
    /\ run = 1
    /\ RunInit
    /\ ServerInit
    /\ PeerAbsent
    /\ AppInit

\* A start that goes on to probe and fetch whatever the argument is.
StartUnchecked ==
    /\ pc = "start"
    /\ pc' = "probe"
    /\ UNCHANGED <<asideVars, inputVars, fsVars, cssVars, dlVars, outVars, pageUrl, htmlAssetUrls, reqs>>

\* normalizeUrl, then the first fs.access of uniqueFolderName.
Start ==
    /\ pc = "start"
    /\ pc' = IF argOk THEN "probe" ELSE "exit1"
    /\ UNCHANGED <<asideVars, inputVars, fsVars, cssVars, dlVars, outVars, pageUrl, htmlAssetUrls, reqs>>

\* A probe that finds every name free.
NameNeverTaken(name, ds) == FALSE

\* fs.access(name) succeeds: the name exists.
NameTaken(name, ds) == name \in ds

\* A uniqueFolderName that makes the directory as soon as it finds the
\* name free.
ProbeCreating ==
    /\ pc = "probe"
    /\ IF NameTaken(probe, dirs)
       THEN /\ probe' = probe + 1
            /\ UNCHANGED <<pc, folder, reqs, dirs>>
       ELSE /\ folder' = probe
            /\ dirs' = dirs \cup {probe}
            /\ pc' = "fetchHtml"
            /\ reqs' = AddReq(reqs, <<"html", PageUrl>>)
            /\ UNCHANGED probe
    /\ UNCHANGED <<asideVars, inputVars, files, run, cssVars, dlVars, outVars, pageUrl,
                   htmlAssetUrls>>

\* uniqueFolderName: one fs.access came back; a free name ends the loop and
\* main goes on to fetchHTML.
Probe ==
    /\ pc = "probe"
    /\ IF NameTaken(probe, dirs)
       THEN /\ probe' = probe + 1
            /\ UNCHANGED <<pc, folder, reqs>>
       ELSE /\ folder' = probe
            /\ pc' = "fetchHtml"
            /\ reqs' = AddReq(reqs, <<"html", PageUrl>>)
            /\ UNCHANGED probe
    /\ UNCHANGED <<asideVars, inputVars, dirs, files, run, cssVars, dlVars, outVars, pageUrl,
                   htmlAssetUrls>>

\* collectCssAndAssets came back or awaits a fetch: main step 5 follows its
\* return.
AfterCss(collected, htmlUrls) ==
    \E c \in {collected} :
        /\ SetCss(c)
        /\ IF c.pc = "done"
           THEN /\ pc' = "mkdir"
                /\ urls' = AllAssetUrls(htmlUrls, c.assets)
           ELSE /\ pc' = "css"
                /\ urls' = <<>>

\* fetchHTML came back: main exits, or runs steps 2 to 4 up to the first
\* await of collectCssAndAssets.
HtmlFetched ==
    /\ pc = "fetchHtml"
    /\ \E o \in HtmlOutcomes :
        IF o.st # "ok"
        THEN /\ pc' = "exit1"
             /\ UNCHANGED <<cssVars, reqs, urls, pageUrl, htmlAssetUrls>>
        ELSE IF NoscriptThrows(scn.doc)
        THEN /\ pc' = "crashed"
             /\ pageUrl' = o.fin
             /\ sheets' = extractStyles(scn.doc, o.fin).stylesheetUrls
             /\ blocks' = extractStyles(scn.doc, o.fin).inlineCssBlocks
             /\ UNCHANGED <<cssK, cssPc, root, rootHdr, imp, visited, cssAssets, parts,
                            topSt, reqs, urls, htmlAssetUrls>>
        ELSE \E st \in {extractStyles(scn.doc, o.fin)} :
             \E found \in {collectHtmlAssetUrls(scn.doc, o.fin)} :
                 /\ pageUrl' = o.fin
                 /\ htmlAssetUrls' = found
                 /\ sheets' = st.stylesheetUrls
                 /\ blocks' = st.inlineCssBlocks
                 /\ topSt' = topSt
                 /\ AfterCss(CssContinue(CssNow, st.stylesheetUrls,
                                          st.inlineCssBlocks, o.fin),
                             found)
    /\ UNCHANGED <<asideVars, inputVars, fsVars, out, nextI, wk, writes, outVars>>

\* The fetchText of the stylesheet in turn came back.
CssTopFetched ==
    /\ pc = "css"
    /\ cssPc = "fetchTop"
    /\ \E o \in TextOutcomes(sheets[cssK]) :
           /\ topSt' = Append(topSt, o.st)
           /\ AfterCss(CssTopDone(CssNow, sheets, blocks, pageUrl, o), htmlAssetUrls)
    /\ UNCHANGED <<asideVars, inputVars, fsVars, sheets, blocks, out, nextI, wk, writes, outVars,
                   pageUrl, htmlAssetUrls>>

\* The fetchText of one pending @import came back.
CssImportFetched ==
    /\ pc = "css"
    /\ cssPc = "inlining"
    /\ \E abs \in {u \in DOMAIN imp : imp[u].st = "pending"} :
       \E o \in TextOutcomes(abs) :
           AfterCss(CssImportDone(CssNow, sheets, blocks, pageUrl, abs, o), htmlAssetUrls)
    /\ topSt' = topSt
    /\ UNCHANGED <<asideVars, inputVars, fsVars, sheets, blocks, out, nextI, wk, writes, outVars,
                   pageUrl, htmlAssetUrls>>

\* fs.mkdir(folder) came back: downloadWithConcurrency starts its workers.
Mkdir ==
    /\ pc = "mkdir"
    /\ dirs' = dirs \cup {folder}
    /\ LET d == StartPool(limit, urls, reqs)
       IN  /\ nextI' = d.nextI
           /\ wk' = d.wk
           /\ reqs' = d.reqs
    /\ out' = [i \in 1..Len(urls) |-> EmptySlot]
    /\ writes' = [i \in 1..Len(urls) |-> 0]
    /\ pc' = "download"
    /\ UNCHANGED <<asideVars, inputVars, files, folder, probe, run, cssVars, urls, outVars, pageUrl,
                   htmlAssetUrls>>

\* The fetchBinary a worker awaits came back: the worker writes out[idx]
\* and loops.
DlComplete ==
    /\ pc = "download"
    /\ \E w \in InFlight :
       \E o \in AssetOutcomes(urls[wk[w]]) :
           /\ out' = [out EXCEPT ![SlotOf(w)] = ResultOf(urls[wk[w]], o)]
           /\ writes' = [writes EXCEPT ![SlotOf(w)] = @ + 1]
           /\ LET d == AfterResult([nextI |-> nextI, wk |-> wk, reqs |-> reqs], w, urls, o)
              IN  /\ nextI' = d.nextI
                  /\ wk' = d.wk
                  /\ reqs' = d.reqs
    /\ UNCHANGED <<asideVars, inputVars, fsVars, cssVars, urls, outVars, pc, pageUrl, htmlAssetUrls>>

\* Promise.all of the workers settled: downloadWithConcurrency returns out.
DownloadReturn ==
    /\ pc = "download"
    /\ InFlight = {}
    /\ pc' = "save"
    /\ saveIdx' = 1
    /\ UNCHANGED <<asideVars, inputVars, fsVars, cssVars, dlVars, urlToLocalRel, localCss, finalHtml,
                   pageUrl, htmlAssetUrls, reqs>>

\* r.finalUrl || r.url
KeyUrl(r) == IF r.finalUrl # NoUrl THEN r.finalUrl ELSE r.url

\* A save loop that enters the requested URL only, under a path of its own.
MapAfterRequestedOnly(map, r) ==
    MapSet(map, r.url, localPathForAsset(r.url, r.contentType))

\* A path that carries the number of the run as well.
LocalRelNumbered(r) ==
    localPathForAsset(KeyUrl(r), r.contentType) \o <<ToString(run)>>

\* const localRel = localPathForAsset(r.finalUrl || r.url, r.contentType)
LocalRel(r) == localPathForAsset(KeyUrl(r), r.contentType)

\* The two set() calls of the save loop for one successful result.
MapAfter(map, r) ==
    MapSet(MapSet(map, KeyUrl(r), LocalRel(r)), r.url, LocalRel(r))

\* fs.writeFile(path.join(folder, localRel), r.buf)
WriteFile(fs, dir, path, content) ==
    [x \in DOMAIN fs \cup {<<dir, path>>} |->
        IF x = <<dir, path>> THEN content ELSE fs[x]]

\* One round of the save loop of main: a failed result is counted, a
\* successful one is mapped and written.
SaveResult ==
    /\ pc = "save"
    /\ saveIdx <= Len(out)
    /\ LET r == out[saveIdx]
       IN  IF ~r.filled \/ ~r.ok
           THEN UNCHANGED <<urlToLocalRel, files>>
           ELSE /\ urlToLocalRel' = MapAfter(urlToLocalRel, r)
                /\ files' = WriteFile(files, folder, LocalRel(r),
                                <<run, r.contentType>> \o KeyUrl(r))
    /\ saveIdx' = saveIdx + 1
    /\ UNCHANGED <<asideVars, inputVars, dirs, folder, probe, run, cssVars, dlVars, localCss,
                   finalHtml, pc, pageUrl, htmlAssetUrls, reqs>>

\* Rewrite passes that start while the save loop is still going on.
RewriteStreaming ==
    /\ pc = "save"
    /\ localCss' = RewriteCssToLocal(CssTextOf(parts), urlToLocalRel)
    /\ finalHtml' = rewriteHtmlReferencesToLocal(scn.doc, pageUrl, urlToLocalRel)
    /\ pc' = "writeIndex"
    /\ UNCHANGED <<asideVars, inputVars, fsVars, cssVars, dlVars, saveIdx, urlToLocalRel, pageUrl,
                   htmlAssetUrls, reqs>>

\* Steps 7 and 8 of main, up to the await of the first writeFile.
Rewrite ==
    /\ pc = "save"
    /\ saveIdx > Len(out)
    /\ localCss' = RewriteCssToLocal(CssTextOf(parts), urlToLocalRel)
    /\ finalHtml' = rewriteHtmlReferencesToLocal(scn.doc, pageUrl, urlToLocalRel)
    /\ pc' = "writeIndex"
    /\ UNCHANGED <<asideVars, inputVars, fsVars, cssVars, dlVars, saveIdx, urlToLocalRel, pageUrl,
                   htmlAssetUrls, reqs>>

\* fs.writeFile of index.html came back.
WriteIndex ==
    /\ pc = "writeIndex"
    /\ files' = WriteFile(files, folder, <<"index.html">>, <<run, "html">>)
    /\ pc' = "writeCss"
    /\ UNCHANGED <<asideVars, inputVars, dirs, folder, probe, run, cssVars, dlVars, outVars, pageUrl,
                   htmlAssetUrls, reqs>>

\* fs.writeFile of style.css came back: the run is over.
WriteCss ==
    /\ pc = "writeCss"
    /\ files' = WriteFile(files, folder, <<"style.css">>, <<run, "css">>)
    /\ pc' = "done"
    /\ UNCHANGED <<asideVars, inputVars, dirs, folder, probe, run, cssVars, dlVars, outVars, pageUrl,
                   htmlAssetUrls, reqs>>

Next ==
    \/ Start
    \/ Probe
    \/ HtmlFetched
    \/ CssTopFetched
    \/ CssImportFetched
    \/ Mkdir
    \/ DlComplete
    \/ DownloadReturn
    \/ SaveResult
    \/ Rewrite
    \/ WriteIndex
    \/ WriteCss

Spec == Init /\ [][Next]_vars

(***************************************************************************)
(* Runs of the program one after the other in one working directory, with  *)
(* the same arguments: a run starts when the process before it has ended.  *)
(***************************************************************************)
\* The pages whose runs are followed by other runs.
RunScenarios == {ScPreload, ScInline, ScLazy}

\* The entry page is served, or answers 404.
InitRuns ==
    /\ Init
    /\ scn \in RunScenarios
    /\ argOk
    /\ htmlRes.status \in {200, 404}
    /\ htmlRes.body # ""

\* The next process starts: what the earlier ones left on disk stays.
NextRun ==
    /\ pc \in {"done", "exit1", "crashed"}
    /\ run < MaxRuns
    /\ run' = run + 1
    /\ pc' = "start"
    /\ folder' = -1
    /\ probe' = 0
    /\ pageUrl' = NoUrl
    /\ htmlAssetUrls' = <<>>
    /\ sheets' = <<>>
    /\ blocks' = <<>>
    /\ cssK' = 1
    /\ cssPc' = "idle"
    /\ root' = NoInv
    /\ rootHdr' = Tok("", <<>>)
    /\ imp' = [u \in {} |-> NoInv]
    /\ visited' = {}
    /\ cssAssets' = <<>>
    /\ parts' = <<>>
    /\ topSt' = <<>>
    /\ reqs' = [q \in {} |-> 0]
    /\ urls' = <<>>
    /\ out' = <<>>
    /\ nextI' = 0
    /\ wk' = <<>>
    /\ writes' = <<>>
    /\ saveIdx' = 1
    /\ urlToLocalRel' = <<>>
    /\ localCss' = <<>>
    /\ finalHtml' = <<>>
    /\ UNCHANGED <<asideVars, inputVars, dirs, files>>

SpecRuns == InitRuns /\ [][Next \/ NextRun]_vars

\* The runs that get their entry page: a valid URL, answered 200 with a body.
InitFetched ==
    /\ Init
    /\ argOk
    /\ htmlRes.status = 200
    /\ htmlRes.body # ""

\* Every request comes back within the client's timeout, and every file
\* system call returns: no step of a run waits for ever.
FairSpec == InitFetched /\ [][Next]_vars /\ WF_vars(Next)

(***************************************************************************)
(* A second process running main() in the same working directory with the  *)
(* same output base name: its file system calls.  What it fetches in       *)
(* between touches neither the directory nor the first process.            *)
(***************************************************************************)
\* uniqueFolderName in the second process: one fs.access came back.
PeerProbe ==
    /\ peerPc = "probe"
    /\ IF NameTaken(peerProbe, dirs)
       THEN /\ peerProbe' = peerProbe + 1
            /\ UNCHANGED <<peerPc, peerFolder>>
       ELSE /\ peerFolder' = peerProbe
            /\ peerPc' = "mkdir"
            /\ UNCHANGED peerProbe
    /\ UNCHANGED <<mainVars, tokVars, srvVars>>

\* fs.mkdir(folder, { recursive: true }) in the second process: an existing
\* directory is no error.
PeerMkdir ==
    /\ peerPc = "mkdir"
    /\ dirs' = dirs \cup {peerFolder}
    /\ peerPc' = "write"
    /\ UNCHANGED <<inputVars, files, folder, probe, run, cssVars, dlVars, outVars, pc,
                   pageUrl, htmlAssetUrls, reqs, peerProbe, peerFolder, tokVars, srvVars>>

\* fs.writeFile of index.html in the second process, whose content is
\* tagged -1.
PeerWriteIndex ==
    /\ peerPc = "write"
    /\ files' = WriteFile(files, peerFolder, <<"index.html">>, <<-1, "html">>)
    /\ peerPc' = "writeCss"
    /\ UNCHANGED <<inputVars, dirs, folder, probe, run, cssVars, dlVars, outVars, pc,
                   pageUrl, htmlAssetUrls, reqs, peerProbe, peerFolder, tokVars, srvVars>>

\* fs.writeFile of style.css in the second process.
PeerWriteCss ==
    /\ peerPc = "writeCss"
    /\ files' = WriteFile(files, peerFolder, <<"style.css">>, <<-1, "css">>)
    /\ peerPc' = "done"
    /\ UNCHANGED <<inputVars, dirs, folder, probe, run, cssVars, dlVars, outVars, pc,
                   pageUrl, htmlAssetUrls, reqs, peerProbe, peerFolder, tokVars, srvVars>>

\* Two processes started on the same page, the second still probing.
InitOverlap ==
    /\ scn \in RunScenarios
    /\ argOk = TRUE
    /\ limit \in 1..MaxLimit
    /\ htmlRes \in HtmlResponses
    /\ htmlRes.status = 200
    /\ htmlRes.body # ""
    /\ dirs \in SUBSET (0..(MaxExisting - 1))
    /\ files = [x \in {<<d, <<"index.html">>>> : d \in dirs} |-> <<0, "html">>]
    /\ run = 1
    /\ RunInit
    /\ ServerInit
    /\ peerPc = "probe"
    /\ peerProbe = 0
    /\ peerFolder = -1
    /\ AppInit

NextPeer ==
    \/ PeerProbe
    \/ PeerMkdir
    \/ PeerWriteIndex
    \/ PeerWriteCss

SpecOverlap == InitOverlap /\ [][Next \/ NextPeer]_vars

(***************************************************************************)
(* Pages for the url(...) tokens of CSS: the page links A.css, which       *)
(* imports B.css; B.css holds any text over the kinds of url(...) there     *)
(* are, and is served in place or after a redirect into a directory.       *)
(***************************************************************************)
\* B.css after its redirect.
SbMoved == <<Origin, "d/", "B", ".css">>

\* url(...) tokens: data:, #fragment and blob: references, a relative and
\* an absolute one, and one new URL() cannot parse.
RefTokens ==
    {Url(Udata), Url(<<"#", "g">>), Url(<<"blob:", "x">>), Url(<<"f">>), Url(Ua),
     Url(BadRef)}

RECURSIVE RefTextsOfLen(_)
RefTextsOfLen(n) ==
    IF n = 0 THEN {<<>>}
    ELSE {Append(t, k) : t \in RefTextsOfLen(n - 1), k \in RefTokens}

RefTexts == UNION {RefTextsOfLen(n) : n \in 0..MaxRefs}

RefScenarios ==
    {Scenario("refs", <<LinkCss(Sa)>>,
              (Sa :> <<Import(Sb), Url(<<"f">>)>>) @@ (Sb :> t) @@ (SbMoved :> t),
              redir) :
         t \in RefTexts, redir \in {{}, {<<Sb, SbMoved>>}}}

InitRefs ==
    /\ scn \in RefScenarios
    /\ argOk = TRUE
    /\ limit = 1
    /\ htmlRes \in {r \in HtmlResponses : r.status = 200 /\ r.body # ""}
    /\ dirs = {}
    /\ files = [x \in {} |-> <<0, "html">>]
    /\ run = 1
    /\ RunInit
    /\ ServerInit
    /\ PeerAbsent
    /\ AppInit

SpecRefs == InitRefs /\ [][Next]_vars

(***************************************************************************)
(* Pages whose references have a scheme other than http(s): the same       *)
(* reference in every place asset discovery looks at, in HTML and in CSS,  *)
(* beside an image that is downloaded.                                     *)
(***************************************************************************)
Uftp == <<"ftp://x.test/", "a", ".png">>

\* A data: URL whose payload quotes the address of the downloaded image.
Uwrap == <<"data:", "x", Origin, "a", ".png">>

SchemeRefs == {Udata, Uftp, Uwrap}

SchemeScenarios ==
    {Scenario("schemes",
              <<LinkCss(Sa), ImgSrc(r), [ImgSrc(Ua) EXCEPT !.srcset = <<<<r, "1x">>>>],
                ImgLazy(r), [El("div") EXCEPT !.style = <<Url(r)>>],
                StyleEl(<<Url(r)>>)>>,
              Site(<<Import(Sb), Url(r)>>, <<Url(r)>>, <<>>, <<>>), {}) :
         r \in SchemeRefs}

InitSchemes ==
    /\ scn \in SchemeScenarios
    /\ argOk = TRUE
    /\ limit \in 1..MaxLimit
    /\ htmlRes \in {r \in HtmlResponses : r.status = 200 /\ r.body # ""}
    /\ dirs = {}
    /\ files = [x \in {} |-> <<0, "html">>]
    /\ run = 1
    /\ RunInit
    /\ ServerInit
    /\ PeerAbsent
    /\ AppInit

SpecSchemes == InitSchemes /\ [][Next]_vars

(***************************************************************************)
(* The upload server at work.  A step is what a handler runs between two    *)
(* awaits; requests overlap at the awaits.                                 *)
(***************************************************************************)
\* What an awaited call or a synchronous file system call comes to.
CallOutcomes == {"ok", "throws"}

\* res.status(code).send(...)
Respond(i, code) == [posts EXCEPT ![i].pc = "done", ![i].status = code]

\* POST /index arrives, multer has stored the upload: without a file the
\* handler answers 400, with one it awaits loader.load().
PostIndex ==
    /\ \E i \in 1..MaxPosts :
        /\ posts[i].pc = "none"
        /\ \E f \in FileNames \cup {NoFile} :
               posts' = IF f = NoFile
                        THEN Respond(i, 400)
                        ELSE [posts EXCEPT ![i].pc = "loading", ![i].file = f]
    /\ UNCHANGED <<mainVars, peerVars, tokVars, uploadedFiles, listed>>

\* loader.load() settled: the handler builds the embeddings and awaits
\* QdrantVectorStore.fromDocuments, or answers 500 from its catch.
IndexLoaded ==
    /\ \E i \in 1..MaxPosts :
        /\ posts[i].pc = "loading"
        /\ \E o \in CallOutcomes :
               posts' = IF o = "ok"
                        THEN [posts EXCEPT ![i].pc = "storing"]
                        ELSE Respond(i, 500)
    /\ UNCHANGED <<mainVars, peerVars, tokVars, uploadedFiles, listed>>

\* fromDocuments settled: the handler pushes the name, removes the upload
\* with fs.unlinkSync and answers 200; a throw of fromDocuments or of
\* unlinkSync lands in the catch, which answers 500.
IndexStored ==
    /\ \E i \in 1..MaxPosts :
        /\ posts[i].pc = "storing"
        /\ \E o \in CallOutcomes, unlinked \in CallOutcomes :
               IF o # "ok"
               THEN /\ posts' = Respond(i, 500)
                    /\ UNCHANGED uploadedFiles
               ELSE /\ uploadedFiles' = Append(uploadedFiles, posts[i].file)
                    /\ posts' = Respond(i, IF unlinked = "ok" THEN 200 ELSE 500)
    /\ UNCHANGED <<mainVars, peerVars, tokVars, listed>>

\* GET /files: res.json(uploadedFiles).
GetFiles ==
    /\ listed' = uploadedFiles
    /\ UNCHANGED <<mainVars, peerVars, tokVars, uploadedFiles, posts>>

InitServer ==
    /\ scn = ScSelf
    /\ argOk = FALSE
    /\ limit = 1
    /\ htmlRes = NoResponse
    /\ dirs = {}
    /\ files = [x \in {} |-> <<>>]
    /\ run = 1
    /\ RunInit
    /\ ServerInit
    /\ PeerAbsent
    /\ AppInit

NextServer ==
    \/ PostIndex
    \/ IndexLoaded
    \/ IndexStored
    \/ GetFiles

SpecServer == InitServer /\ [][NextServer]_vars

(***************************************************************************)
(* Properties.                                                             *)
(***************************************************************************)
\* The requested URLs whose download succeeded, so far.
Succeeded == {out[i].url : i \in {j \in 1..Len(out) : out[j].filled /\ out[j].ok}}

\* Whether main wrote a file at this path of its output directory.
Written(path) == <<folder, path>> \in DOMAIN files

\* The targets of the url(...) tokens of a CSS text.
CssRefs(css) == {ValueOf(css[i]) : i \in {j \in 1..Len(css) : IsUrlToken(css[j])}}

\* The asset references of a document in the attributes the HTML pass
\* rewrites: src, icon href, srcset candidates and style url().
ElementRefs(el) ==
    (IF el.src # NoUrl THEN {el.src} ELSE {})
        \cup (IF el.tag = "link" /\ el.rel # "stylesheet" /\ el.href # NoUrl
              THEN {el.href} ELSE {})
        \cup Range(SrcsetRefs(el.srcset))
        \cup Range(SrcsetRefs(el.dataSrcset))
        \cup Range(StyleRefs(el.style))

HtmlRefs(html) == UNION {ElementRefs(html[i]) : i \in 1..Len(html)}

\* A reference of the output is sound: a local path whose file was written,
\* or a reference of the input, unchanged, whose download did not succeed.
SoundRef(v, originals, base) ==
    \/ Written(v)
    \/ /\ v \in originals
       /\ ~CanResolve(v) \/ ResolveUrl(v, base) \notin Succeeded

\* C1: after a run that completes, every asset reference of style.css and
\* of index.html is a local path whose file was written, or the original
\* URL of an asset whose download did not succeed.
C1_RoundTrip ==
    pc = "done" =>
        /\ \A v \in CssRefs(localCss) :
               SoundRef(v, CssRefs(CssTextOf(parts)), pageUrl)
        /\ \A v \in HtmlRefs(finalHtml) :
               SoundRef(v, HtmlRefs(scn.doc), pageUrl)

\* The URLs a stylesheet body imports.
ImportsOf(u) ==
    {ResolveUrl(ValueOf(BodyOf(u)[i]), u) :
        i \in {j \in 1..Len(BodyOf(u)) :
                  IsImportRule(BodyOf(u)[j]) /\ CanResolve(ValueOf(BodyOf(u)[j]))}}

\* u imports itself, directly or via a second file.
OnShortCycle(u) == u \in ImportsOf(u) \/ \E v \in ImportsOf(u) : u \in ImportsOf(v)

\* Every stylesheet requested so far was served as CSS at the URL asked for.
AllCssServed ==
    /\ \A k \in 1..Len(topSt) :
           /\ topSt[k] = "ok"
           /\ k <= Len(parts) => parts[k][1] = Tok("hdr", sheets[k])
    /\ \A u \in DOMAIN imp : imp[u].st = "ok" /\ imp[u].fin = u

\* C2: when a top-level stylesheet imports itself, directly or via a second
\* file, and every file is served, inlining ends and the consolidated CSS
\* holds a "skipped (visited)" comment.
C2_CycleGuard ==
    (cssPc = "done" /\ AllCssServed /\ \E k \in 1..Len(sheets) : OnShortCycle(sheets[k]))
        => \E i \in 1..Len(CssTextOf(parts)) : KindOf(CssTextOf(parts)[i]) = "skip"

\* How many inlined bodies enclose token i of a text.
LevelAt(css, i) ==
    Cardinality({j \in 1..(i - 1) : KindOf(css[j]) = "inl"})
        - Cardinality({j \in 1..(i - 1) : KindOf(css[j]) = "end"})

\* The depth the items of a part were inlined with.
DepthOfPart(part) == IF KindOf(part[1]) = "hdr" THEN LinkedDepth ELSE InlineDepth

\* C3: a linked stylesheet is inlined to depth 2 and an inline block to
\* depth 1: no body is inlined more than that many levels deep, and an
\* @import rule is left unresolved only where the depth has reached 0, in a
\* deepest body.
C3_DepthBound ==
    cssPc = "done" =>
        \A k \in 1..Len(parts) : \A i \in 1..Len(parts[k]) :
            /\ KindOf(parts[k][i]) = "inl"
                   => LevelAt(parts[k], i) < DepthOfPart(parts[k])
            /\ IsImportRule(parts[k][i]) /\ CanResolve(ValueOf(parts[k][i]))
                   => LevelAt(parts[k], i) = DepthOfPart(parts[k])

\* The position in the final document of element i of the fetched one.
KeptPos(i) == Cardinality({j \in 1..i : ~IsRemovedStyleSource(scn.doc[j])})

FinalEl(i) == finalHtml[KeptPos(i)]

\* The elements of the fetched document with a src of absolute URL u, and
\* those with a lazy-load attribute of u.
SrcOf(u) ==
    {i \in 1..Len(scn.doc) :
        /\ scn.doc[i].tag = "img"
        /\ scn.doc[i].src # NoUrl
        /\ CanResolve(scn.doc[i].src)
        /\ ResolveUrl(scn.doc[i].src, pageUrl) = u}

LazyOf(u) ==
    {i \in 1..Len(scn.doc) :
        /\ scn.doc[i].tag = "img"
        /\ LazyRef(scn.doc[i]) # NoUrl
        /\ CanResolve(LazyRef(scn.doc[i]))
        /\ ResolveUrl(LazyRef(scn.doc[i]), pageUrl) = u}

\* The URLs referenced both ways whose download succeeded.
SharedLazy == {u \in Succeeded : SrcOf(u) # {} /\ LazyOf(u) # {}}

\* C4 as stated: a URL referenced via src and via data-src that downloads
\* is downloaded once, and both attributes are rewritten to one local path.
C4_BothRewritten ==
    pc = "done" =>
        \A u \in SharedLazy :
            /\ ReqCount(<<"asset", u>>) = 1
            /\ \A i \in SrcOf(u) : FinalEl(i).src = MapGet(urlToLocalRel, u)
            /\ \A i \in LazyOf(u) : FinalEl(i).dataSrc = MapGet(urlToLocalRel, u)

\* C4: a URL referenced via src and via data-src (data-original, data-lazy)
\* that downloads is downloaded once; every src of it becomes its local
\* path, every lazy-load attribute keeps its value, and an element that
\* had a lazy-load attribute and no src gets the local path as src.
C4_SrcRewrittenLazyAdopted ==
    pc = "done" =>
        \A u \in SharedLazy :
            /\ ReqCount(<<"asset", u>>) = 1
            /\ Written(MapGet(urlToLocalRel, u))
            /\ \A i \in SrcOf(u) : FinalEl(i).src = MapGet(urlToLocalRel, u)
            /\ \A i \in LazyOf(u) :
                   /\ FinalEl(i).dataSrc = scn.doc[i].dataSrc
                   /\ FinalEl(i).dataOriginal = scn.doc[i].dataOriginal
                   /\ FinalEl(i).dataLazy = scn.doc[i].dataLazy
                   /\ scn.doc[i].src = NoUrl
                          => FinalEl(i).src = MapGet(urlToLocalRel, u)

\* A run that ended with a src and a data-src of one downloaded URL, the
\* data-src on an element without src.
C4_Witness ==
    /\ pc = "done"
    /\ \E u \in SharedLazy : \E i \in LazyOf(u) :
           /\ scn.doc[i].src = NoUrl
           /\ FinalEl(i).src = MapGet(urlToLocalRel, u)
           /\ FinalEl(i).dataSrc = u

\* The absolute URLs the url(...) tokens of the consolidated CSS name, and
\* the positions of a URL among them.
CssUses(u) ==
    {i \in 1..Len(CssTextOf(parts)) :
        IsUrlToken(CssTextOf(parts)[i]) /\ ValueOf(CssTextOf(parts)[i]) = u}

HasNoDuplicates(seq) == \A i, j \in 1..Len(seq) : seq[i] = seq[j] => i = j

\* The http(s) URLs both discoveries found that were served where asked.
SharedAssets ==
    {u \in Range(htmlAssetUrls) \cap Range(cssAssets) :
        \E i \in 1..Len(out) :
            out[i].filled /\ out[i].ok /\ out[i].url = u /\ out[i].finalUrl = u}

\* C5: the downloader's list is the duplicate-free union of the asset URLs
\* found in HTML and in CSS; an asset found in both is requested once, is
\* written as one file, and has one local path, which the CSS pass and the
\* HTML pass both put in place of it.
C5_OneAssetOnePath ==
    /\ pc \in {"download", "save", "writeIndex", "writeCss", "done"} =>
           /\ HasNoDuplicates(urls)
           /\ Range(urls) = {u \in Range(htmlAssetUrls) \cup Range(cssAssets) : IsHttp(u)}
    /\ pc = "done" =>
           \A u \in SharedAssets :
               /\ ReqCount(<<"asset", u>>) = 1
               /\ Written(MapGet(urlToLocalRel, u))
               /\ \A i \in SrcOf(u) : FinalEl(i).src = MapGet(urlToLocalRel, u)
               /\ \A i \in CssUses(u) :
                      ValueOf(localCss[i]) = MapGet(urlToLocalRel, u)

\* The linked stylesheets whose fetch failed.
FailedSheets == {k \in 1..Len(topSt) : topSt[k] # "ok"}

\* A failed stylesheet leaves its comment in the consolidated CSS and the
\* run alive; a run that ends has gone through every stylesheet and block
\* and has written index.html, linked to style.css, and style.css.
C6_Tolerated ==
    /\ \A k \in FailedSheets :
           /\ pc \notin {"exit1", "crashed"}
           /\ k <= Len(parts)
           /\ parts[k] = <<Tok("failedcss", sheets[k])>>
    /\ pc = "done" /\ FailedSheets # {} =>
           /\ Len(parts) = Len(sheets) + Len(blocks)
           /\ Len(topSt) = Len(sheets)
           /\ Written(<<"index.html">>)
           /\ Written(<<"style.css">>)
           /\ finalHtml # <<>> /\ Last(finalHtml) = StyleCssLink

\* C6: a linked stylesheet whose fetch fails (non-2xx status or network
\* error) does not abort the run: its comment is in the consolidated CSS,
\* the other stylesheets and blocks are processed, and the run goes on to
\* write index.html with its link to style.css.
C6_FailedSheetTolerated ==
    /\ []C6_Tolerated
    /\ (FailedSheets # {}) ~> (pc = "done")

\* A run that ended after the first of two linked stylesheets failed and
\* the second was inlined.
C6_Witness ==
    /\ pc = "done"
    /\ Len(sheets) >= 2
    /\ 1 \in FailedSheets
    /\ 2 \notin FailedSheets
    /\ KindOf(parts[2][1]) = "hdr"
    /\ Len(parts) = 3

\* The name uniqueFolderName returned is the first free one: it does not
\* exist until main makes it, and every name before it exists.
FirstFreeName ==
    pc \in {"fetchHtml", "css", "mkdir"} =>
        /\ folder \notin dirs
        /\ \A n \in 0..(folder - 1) : n \in dirs

\* The files of one directory were written by one run, and a run wrote
\* into one directory.
OwnDirectory ==
    \A x, y \in DOMAIN files :
        /\ x[1] = y[1] => files[x][1] = files[y][1]
        /\ files[x][1] = files[y][1] /\ files[x][1] > 0 => x[1] = y[1]

\* A step leaves every file of an earlier run as it is.
EarlierFilesKept ==
    \A x \in DOMAIN files :
        files[x][1] # run => x \in DOMAIN files' /\ files'[x] = files[x]

\* C7: the output directory is the first of base, base-1, ... that does not
\* exist when probed; runs that follow one another each write into a
\* directory of their own, and no step modifies a file of an earlier run.
C7_NeverOverwrites ==
    /\ [](FirstFreeName /\ OwnDirectory)
    /\ [][EarlierFilesKept]_vars

\* Two runs have ended, the first in base and the second in base-1, each
\* with its own index.html.
C7_Witness ==
    /\ run = 2
    /\ pc = "done"
    /\ folder = 1
    /\ <<0, <<"index.html">>>> \in DOMAIN files
    /\ files[<<0, <<"index.html">>>>] = <<1, "html">>
    /\ files[<<1, <<"index.html">>>>] = <<2, "html">>

\* C8: while the workers run no position is written twice, no two workers
\* hold one index and no URL is requested twice; the array returned has
\* the length of the input, and position i holds the one outcome of
\* urls[i], whatever the order of completion and the limit.
C8_IndexedResults ==
    /\ pc = "download" =>
           /\ Len(out) = Len(urls)
           /\ \A i \in 1..Len(urls) :
                  /\ writes[i] <= 1
                  /\ out[i].filled <=> writes[i] = 1
                  /\ out[i].filled => out[i].url = urls[i]
                  /\ ReqCount(<<"asset", urls[i]>>) <= 1
           /\ \A v, w \in InFlight : wk[v] = wk[w] => v = w
    /\ pc \in {"save", "writeIndex", "writeCss", "done"} =>
           /\ Len(out) = Len(urls)
           /\ \A i \in 1..Len(urls) :
                  /\ out[i].filled
                  /\ out[i].url = urls[i]
                  /\ writes[i] = 1
                  /\ ReqCount(<<"asset", urls[i]>>) = 1

\* The downloader returned three outcomes, the middle one a failure, from
\* a pool of two workers.
C8_Witness ==
    /\ pc = "save"
    /\ Len(urls) = 3
    /\ limit = 2
    /\ out[1].ok /\ ~out[2].ok /\ out[3].ok

\* C9: the fetches in flight are never more than the limit, nor more than
\* the URLs.
C9_BoundedInFlight ==
    /\ Cardinality(InFlight) <= limit
    /\ Cardinality(InFlight) <= Len(urls)

\* The pool is full while URLs are still unclaimed.
C9_Witness ==
    /\ pc = "download"
    /\ limit = 2
    /\ Cardinality(InFlight) = limit
    /\ nextI < Len(urls)

\* downloadWithConcurrency returned one outcome per URL: every URL was
\* requested, and a failure holds its URL and the message of its error.
OneOutcomeEach ==
    /\ Len(out) = Len(urls)
    /\ \A i \in 1..Len(urls) :
           /\ out[i].filled
           /\ out[i].url = urls[i]
           /\ ReqCount(<<"asset", urls[i]>>) >= 1
           /\ ~out[i].ok => out[i].error \in {MessageOf(HttpError), MessageOf(NetError)}
           /\ out[i].ok => out[i].error = ""

\* C10: when every fetch comes back, downloadWithConcurrency returns one
\* outcome per URL, whichever fetches failed.
C10_BatchCompletes == (pc = "download") ~> (pc = "save" /\ OneOutcomeEach)

\* The downloader returned with a failure followed by a success.
C10_Witness ==
    /\ pc = "save"
    /\ saveIdx = 1
    /\ Len(out) >= 2
    /\ ~out[1].ok
    /\ out[2].ok
    /\ OneOutcomeEach

\* The results the save loop has gone through, and the successful ones.
Saved ==
    IF pc = "save" THEN 1..(saveIdx - 1)
    ELSE IF pc \in {"writeIndex", "writeCss", "done"} THEN 1..Len(out)
    ELSE {}

SavedOk == {i \in Saved : out[i].filled /\ out[i].ok}

\* The keys of the map come from successful results only, and both URLs of
\* every successful result gone through are keys, of written files.
KeysOfSuccesses ==
    /\ MapKeys(urlToLocalRel) = UNION {{out[i].url, KeyUrl(out[i])} : i \in SavedOk}
    /\ \A i \in SavedOk :
           /\ Written(MapGet(urlToLocalRel, out[i].url))
           /\ Written(MapGet(urlToLocalRel, KeyUrl(out[i])))
    /\ \A i \in Saved \ SavedOk :
           out[i].url \in MapKeys(urlToLocalRel)
               => \E j \in SavedOk : out[i].url \in {out[j].url, KeyUrl(out[j])}

\* One round of the save loop: a successful result puts its requested and
\* its final URL under one local path, a failed one leaves the map as it is.
EntersBothKeys ==
    (pc = "save" /\ saveIdx <= Len(out) /\ saveIdx' = saveIdx + 1) =>
        IF out[saveIdx].ok
        THEN /\ MapGet(urlToLocalRel', out[saveIdx].url)
                    = localPathForAsset(KeyUrl(out[saveIdx]), out[saveIdx].contentType)
             /\ MapGet(urlToLocalRel', KeyUrl(out[saveIdx]))
                    = MapGet(urlToLocalRel', out[saveIdx].url)
        ELSE urlToLocalRel' = urlToLocalRel

Rewritten == pc \in {"writeIndex", "writeCss", "done"}

\* Before the passes nothing is rewritten; once they have run, no fetch is
\* in flight, every outcome is in, every success is in the map with its
\* file written, and both outputs are the rewrite under that one map.
PassesAfterMap ==
    /\ ~Rewritten => localCss = <<>> /\ finalHtml = <<>>
    /\ Rewritten =>
           /\ InFlight = {}
           /\ saveIdx > Len(out)
           /\ \A i \in 1..Len(out) :
                  /\ out[i].filled
                  /\ out[i].ok =>
                         /\ {out[i].url, KeyUrl(out[i])} \subseteq MapKeys(urlToLocalRel)
                         /\ Written(MapGet(urlToLocalRel, out[i].url))
           /\ localCss = RewriteCssToLocal(CssTextOf(parts), urlToLocalRel)
           /\ finalHtml = rewriteHtmlReferencesToLocal(scn.doc, pageUrl, urlToLocalRel)

\* Once the passes have run the map does not change.
MapFrozen == Rewritten => urlToLocalRel' = urlToLocalRel

\* C12: neither rewrite pass starts before every download has finished and
\* every successful outcome is in the map with its file written; both
\* passes read the same, final map.
C12_RewriteAfterMap == []PassesAfterMap /\ [][MapFrozen]_vars

\* The passes have run over the map of two successful downloads.
C12_Witness ==
    /\ pc = "writeIndex"
    /\ Len(out) >= 2
    /\ \A i \in 1..Len(out) : out[i].ok
    /\ localCss # <<>>
    /\ finalHtml # <<>>
    /\ Len(urlToLocalRel) >= 2

\* The run is over with index.html, style.css and the file of every
\* successful download written.
Completed ==
    /\ pc = "done"
    /\ Written(<<"index.html">>)
    /\ Written(<<"style.css">>)
    /\ \A i \in 1..Len(out) :
           out[i].ok => Written(localPathForAsset(KeyUrl(out[i]), out[i].contentType))

\* C13: once the entry HTML is fetched, whatever the page holds and
\* whichever stylesheets, imports and assets fail, the run goes on to its
\* end: index.html, style.css and every downloaded asset are written.
C13_RunCompletes == (pageUrl # NoUrl) ~> Completed

\* fetchHTML has come back on a response of the server, and it failed.
HtmlAnswered == argOk /\ pc \notin {"start", "probe", "fetchHtml"} /\ htmlRes # NoResponse

HtmlFailed == pc = "exit1"

\* The page fetchHTML returned is the response's, at the URL it ended at.
HtmlReturned == pageUrl = htmlRes.responseUrl /\ htmlRes.body # ""

\* C14 as stated: fetchHTML fails exactly when the status is outside
\* [200, 299) or the body is empty, and otherwise returns the HTML with the
\* final URL.
C14_FailsOutside299 ==
    HtmlAnswered =>
        /\ HtmlFailed <=> (htmlRes.status < 200 \/ htmlRes.status >= 299 \/ htmlRes.body = "")
        /\ ~HtmlFailed => HtmlReturned

\* C14: fetchHTML fails exactly when the status is outside 200..299 or the
\* body is empty, and otherwise returns the HTML with the final URL.
C14_FailsOutside2xx ==
    HtmlAnswered =>
        /\ HtmlFailed <=> (htmlRes.status < 200 \/ htmlRes.status > 299 \/ htmlRes.body = "")
        /\ ~HtmlFailed => HtmlReturned

\* A response of status 299 with a body, after a redirect, was taken as
\* the page.
C14_Witness ==
    /\ HtmlAnswered
    /\ htmlRes.status = 299
    /\ htmlRes.responseUrl = PageUrlMoved
    /\ pageUrl = PageUrlMoved
    /\ pc = "done"

\* Nothing on disk is of this run: every directory is one that was there
\* before, with the file it had.
DiskUntouched ==
    /\ dirs = {x[1] : x \in DOMAIN files}
    /\ \A x \in DOMAIN files : files[x][1] # run
    /\ folder \notin dirs

\* The run ended on a failed fetch of the entry page.
HtmlFetchFatal == argOk /\ pc = "exit1"

\* C15: a failed fetch of the entry page ends the run with exit code 1;
\* by then the page request is the only request issued and the disk is as
\* it was: the output directory exists only after a successful HTML fetch.
C15_HtmlFailureFatal ==
    /\ argOk /\ pc \notin {"start", "probe", "fetchHtml"}
           /\ fetchHTML(htmlRes, PageUrl).st # "ok" => pc = "exit1"
    /\ HtmlFetchFatal =>
           /\ DOMAIN reqs = {<<"html", PageUrl>>}
           /\ DiskUntouched
    /\ pageUrl = NoUrl => DiskUntouched

\* The run exited on a 404 of the entry page, beside a directory of an
\* earlier run.
C15_Witness ==
    /\ HtmlFetchFatal
    /\ htmlRes.status = 404
    /\ dirs = {0}
    /\ folder = 1
    /\ ReqCount(<<"html", PageUrl>>) = 1

\* C16: an argument that does not normalize to a URL ends the run with
\* exit code 1 at once: no name is probed, no request is issued and
\* nothing is written.
C16_InvalidUrlFatal ==
    ~argOk =>
        /\ pc \in {"start", "exit1"}
        /\ DOMAIN reqs = {}
        /\ folder = -1
        /\ DiskUntouched

\* The run exited on an argument that is no URL.
C16_Witness == ~argOk /\ pc = "exit1" /\ dirs = {0}

\* The elements of a document that are style sources of the collector, and
\* its stylesheet links.
StyleSources(html) ==
    {i \in 1..Len(html) : IsStyleLink(html[i]) \/ html[i].tag = "style"}

StylesheetLinks(html) ==
    {i \in 1..Len(html) : html[i].tag = "link" /\ html[i].rel = "stylesheet"}

\* C17: after the HTML rewrite none of the style sources the collector
\* read (stylesheet links, style preloads, style elements) is left in the
\* document, and its one stylesheet link is the link to style.css.
C17_OneStyleLink ==
    Rewritten =>
        /\ \A i \in StyleSources(finalHtml) : finalHtml[i] = StyleCssLink
        /\ \A i \in StylesheetLinks(finalHtml) : finalHtml[i] = StyleCssLink
        /\ Cardinality(StylesheetLinks(finalHtml)) = 1

\* The reference has no entry in the map: it does not parse, or its URL
\* was not downloaded.
NoEntry(v) == ~CanResolve(v) \/ ResolveUrl(v, pageUrl) \notin MapKeys(urlToLocalRel)

\* A value of the final document is the original one, or the local path
\* of the original one's URL; it is the original one when that URL has no
\* entry.
KeptOrLocal(new, old) ==
    /\ NoEntry(old) => new = old
    /\ new # old => new = MapGet(urlToLocalRel, ResolveUrl(old, pageUrl))

SrcsetKept(new, old) ==
    /\ Len(new) = Len(old)
    /\ \A k \in 1..Len(old) :
           /\ new[k][2] = old[k][2]
           /\ KeptOrLocal(new[k][1], old[k][1])

StyleKept(new, old) ==
    /\ Len(new) = Len(old)
    /\ \A k \in 1..Len(old) :
           IF IsUrlToken(old[k])
           THEN /\ KindOf(new[k]) = KindOf(old[k])
                /\ KeptOrLocal(ValueOf(new[k]), ValueOf(old[k]))
           ELSE new[k] = old[k]

\* The elements of the fetched document that stay in the final one.
KeptEls == {i \in 1..Len(scn.doc) : ~IsRemovedStyleSource(scn.doc[i])}

\* C18: in the final HTML a src, an href, a srcset candidate or a url() of
\* a style attribute whose URL has no entry in the map is as it was; a
\* value that changed is the local path of its URL, and a srcset candidate
\* has its descriptor.
C18_UnmappedUnchanged ==
    Rewritten =>
        \A i \in KeptEls :
            /\ scn.doc[i].src # NoUrl => KeptOrLocal(FinalEl(i).src, scn.doc[i].src)
            /\ scn.doc[i].href # NoUrl => KeptOrLocal(FinalEl(i).href, scn.doc[i].href)
            /\ SrcsetKept(FinalEl(i).srcset, scn.doc[i].srcset)
            /\ SrcsetKept(FinalEl(i).dataSrcset, scn.doc[i].dataSrcset)
            /\ StyleKept(FinalEl(i).style, scn.doc[i].style)

\* The final document of a run in which one asset was downloaded and the
\* other failed: the srcset has one local and one original candidate, both
\* with their descriptors, and the style keeps its url().
C18_Witness ==
    /\ pc = "done"
    /\ scn = ScAttrs
    /\ Ua \in MapKeys(urlToLocalRel)
    /\ Uf \notin MapKeys(urlToLocalRel)
    /\ FinalEl(1).srcset = <<<<MapGet(urlToLocalRel, Ua), "1x">>, <<Uf, "2x">>>>
    /\ FinalEl(2).style = scn.doc[2].style
    /\ FinalEl(3).href = MapGet(urlToLocalRel, Ua)

\* The asset files on disk, and the response a file was written from: its
\* content type and the URL it ended at.
AssetFiles == {x \in DOMAIN files : x[2] \notin {<<"index.html">>, <<"style.css">>}}

TypeOf(x) == files[x][2]

UrlOf(x) == Tail(Tail(files[x]))

JsFamily(u, ct) == ExtOf(u) = ".js" \/ ct = "application/javascript"

FontFamily(u, ct) == ExtOf(u) = ".woff" \/ ct = "font/woff"

ImgFamily(u, ct) == ExtOf(u) = ".png" \/ ct = "image/png"

PriorityFolder(u, ct) ==
    IF JsFamily(u, ct) THEN "js"
    ELSE IF FontFamily(u, ct) THEN "fonts"
    ELSE IF ImgFamily(u, ct) THEN "img"
    ELSE "other"

\* C20: every asset is written at assets/<folder>/<base>-<hash><ext>, the
\* folder being js, else fonts, else img, else other, by extension or
\* content type in that order of priority.
C20_FolderPriority ==
    \A x \in AssetFiles :
        /\ PriorityFolder(UrlOf(x), TypeOf(x)) \in {"js", "fonts", "img", "other"}
        /\ x[2] = <<"assets/" \o PriorityFolder(UrlOf(x), TypeOf(x)) \o "/"
                        \o sanitize(BaseOf(UrlOf(x))) \o "-" \o sha1Short(UrlOf(x))
                        \o ensureExt(UrlOf(x), TypeOf(x))>>

\* A .png served as JavaScript is under js, and a .woff served as an image
\* is under fonts.
C20_Witness ==
    /\ \E x \in AssetFiles :
           /\ UrlOf(x) = Ua
           /\ TypeOf(x) = "application/javascript"
           /\ x[2] = <<"assets/js/a-sha1(https://x.test/a.png).png">>
    /\ \E x \in AssetFiles :
           /\ UrlOf(x) = Ufw
           /\ TypeOf(x) = "image/png"
           /\ x[2] = <<"assets/fonts/f-sha1(https://x.test/f.woff).woff">>

\* C21: decoding the IDs encode returns for a text, with the same tokenizer
\* and no reset in between, gives the text back: on whatever vocabulary the
\* tokenizer has learnt, for the text in the text area, and for the IDs the
\* App decoded after it had encoded them.
C21_EncodeDecode ==
    /\ JoinAll(syllabify(text)) = text
    /\ LET r == encode(Tokenizer, text) IN decode(r.tok, r.ids) = text
    /\ decodedOf # NoText => decoded = decodedOf[1]

\* The README's example decoded after it was encoded by a tokenizer that
\* had learnt another text first.
C21_Witness ==
    /\ decodedOf = <<"unbeatable vs unbelievable!">>
    /\ decoded = "unbeatable vs unbelievable!"
    /\ text = "unbeatable vs unbelievable!"
    /\ Len(ids) = 11
    /\ nextId > 9
    /\ clicks = 3

\* The two maps are inverse bijections over the IDs 0..nextId-1.
InverseMaps ==
    /\ DOMAIN i2t = 0..(nextId - 1)
    /\ \A t \in DOMAIN t2i : t2i[t] \in DOMAIN i2t /\ i2t[t2i[t]] = t
    /\ \A n \in DOMAIN i2t : i2t[n] \in DOMAIN t2i /\ t2i[i2t[n]] = n

\* Where a token first stands in a sequence of tokens.
FirstAt(tokens, t) == CHOOSE k \in 1..Len(tokens) : tokens[k] = t /\ \A j \in 1..(k - 1) : tokens[j] # t

\* An encode keeps every ID given before, gives the tokens it sees for the
\* first time the next integers in their order, and returns the ID of each
\* token.
EncodeLearns ==
    onEncode =>
        LET tokens == syllabify(text)
            new    == Range(tokens) \ DOMAIN t2i
        IN  /\ \A t \in DOMAIN t2i : t \in DOMAIN t2i' /\ t2i'[t] = t2i[t]
            /\ DOMAIN t2i' = DOMAIN t2i \cup Range(tokens)
            /\ nextId' = nextId + Cardinality(new)
            /\ \A a, b \in new : FirstAt(tokens, a) < FirstAt(tokens, b) => t2i'[a] < t2i'[b]
            /\ ids' = [k \in 1..Len(tokens) |-> t2i'[tokens[k]]]

\* The tokens of the IDs, "<UNK>" for an ID outside 0..nextId-1, joined.
RECURSIVE TokensOrUnk(_)
TokensOrUnk(nums) ==
    IF nums = <<>> THEN ""
    ELSE (IF nums[1] \in 0..(nextId - 1) THEN i2t[nums[1]] ELSE "<UNK>")
             \o TokensOrUnk(Tail(nums))

DecodeReads ==
    onDecode => /\ UNCHANGED <<t2i, i2t, nextId>>
                /\ decoded' = TokensOrUnk(ids)

ResetEmpties ==
    onReset => /\ DOMAIN t2i' = {}
               /\ DOMAIN i2t' = {}
               /\ nextId' = 0

\* C22: the two maps stay inverse bijections over 0..nextId-1 through every
\* encode, decode and reset; a token gets the next ID the first time it is
\* seen and keeps it; decode leaves the vocabulary alone and gives "<UNK>"
\* for an unknown ID; reset empties the maps and restarts at 0.
C22_Vocabulary ==
    /\ []InverseMaps
    /\ [][EncodeLearns /\ DecodeReads /\ ResetEmpties]_vars

\* The same text was encoded twice, the IDs edited to a known and an
\* unknown one, and decoded.
C22_Witness ==
    /\ clicks = 3
    /\ nextId >= 2
    /\ ids = <<0, 99>>
    /\ decoded = i2t[0] \o "<UNK>"

\* The rules of a CSS text that are no @import and no url().
RulesOf(css) == {css[i] : i \in {j \in 1..Len(css) : KindOf(css[j]) = "rule"}}

\* Block k of the consolidated CSS stands for linked stylesheet k: its
\* diagnostic comment alone, or the provenance comment of the URL the
\* stylesheet was served from, followed by its rules.
SheetBlock(k) ==
    \/ parts[k] = <<Tok("failedcss", sheets[k])>>
    \/ \E f \in FinalsOf(sheets[k]) :
           \/ parts[k] = <<Tok("noncss", f)>>
           \/ /\ parts[k][1] = Tok("hdr", f)
              /\ RulesOf(BodyOf(f)) \subseteq Range(Tail(parts[k]))

\* Block k stands for inline block j: the provenance comment of the page
\* and the rules of the block.
InlineBlock(k, j) ==
    /\ parts[k][1] = Tok("inlinehdr", pageUrl)
    /\ RulesOf(blocks[j]) \subseteq Range(Tail(parts[k]))

\* C23: the consolidated CSS holds one block for each linked stylesheet, in
\* document order, then one for each non-empty inline block, in document
\* order, each a processed text under its provenance comment or a
\* diagnostic comment, whichever order the fetches completed or failed in.
C23_BlocksInOrder ==
    /\ sheets = Dedup(sheets)
    /\ pageUrl # NoUrl /\ pc # "crashed" =>
           /\ sheets = Dedup(StyleLinks(scn.doc, pageUrl))
           /\ blocks = InlineCssBlocks(scn.doc)
    /\ Len(parts) <= Len(sheets) + Len(blocks)
    /\ cssPc = "done" => Len(parts) = Len(sheets) + Len(blocks)
    /\ \A k \in 1..Len(parts) :
           IF k <= Len(sheets) THEN SheetBlock(k) ELSE InlineBlock(k, k - Len(sheets))

\* The first of two stylesheets failed, the second was served, and the
\* inline block follows them.
C23_Witness ==
    /\ cssPc = "done"
    /\ Len(sheets) = 2
    /\ Len(blocks) = 1
    /\ parts[1] = <<Tok("failedcss", sheets[1])>>
    /\ parts[2][1] = Tok("hdr", sheets[2])
    /\ parts[3][1] = Tok("inlinehdr", pageUrl)

\* The places of the consolidated CSS where the body fetched for an @import
\* of u was put, or the comment of its failed fetch.
FetchedBodies(u) ==
    {i \in 1..Len(CssTextOf(parts)) :
        /\ KindOf(CssTextOf(parts)[i]) \in {"inl", "fail"}
        /\ u \in FinalsOf(ValueOf(CssTextOf(parts)[i])) \cup {ValueOf(CssTextOf(parts)[i])}}

\* C24: visited is shared by the whole run, so every URL that is the target
\* of an @import is fetched at most once, through every stylesheet, inline
\* block and level and in every order of the import fetches; its later
\* imports become comments and bring no second body.
C24_EachImportOnce ==
    \A u \in DOMAIN imp :
        /\ ReqCount(<<"css", u>>) <= 1
        /\ Cardinality(FetchedBodies(u)) <= 1

\* What an invocation returns when every @import rule it scanned is
\* replaced where it stands: by the inlined body of its fetch, by the
\* comment of its failed fetch, or by its skip comment.
RECURSIVE InPlaceText(_, _)
InPlaceText(impf, inv) ==
    LET results == [i \in 1..Len(inv.tasks) |->
                       <<inv.tasks[i][1],
                         IF impf[inv.tasks[i][2]].st = "ok"
                         THEN <<Tok("inl", impf[inv.tasks[i][2]].fin)>>
                                  \o InPlaceText(impf, impf[inv.tasks[i][2]].inv)
                                  \o <<Tok("end", <<>>)>>
                         ELSE <<Tok("fail", inv.tasks[i][2])>>>>]
                       \o inv.fbs
        at(i)   == LET same == SelectSeq(results, LAMBDA r : r[1] = inv.text[i])
                       nth  == Cardinality({p \in 1..i : inv.text[p] = inv.text[i]})
                   IN  IF IsImportRule(inv.text[i]) /\ nth <= Len(same)
                       THEN same[nth][2]
                       ELSE <<inv.text[i]>>
    IN  Flatten([i \in 1..Len(inv.text) |-> at(i)])

\* Some @import of the stylesheet or block being inlined failed.
ImportFailed(impf, inv) ==
    \/ \E i \in 1..Len(inv.tasks) : impf[inv.tasks[i][2]].st = "fail"
    \/ \E i \in 1..Len(inv.fbs) : KindOf(inv.fbs[i][2][1]) = "bad"

\* The collector has just pushed the block of the stylesheet it was
\* inlining.
BlockPushed == cssPc = "inlining" /\ Len(parts') > Len(parts)

\* C25: a failed @import does not abort its stylesheet: the block of the
\* stylesheet is pushed all the same, with the comment of the failure where
\* the failed rule stood, every other @import resolved where it stood and
\* the rest of the text as it was.
C25_FailedImportInPlace ==
    [][BlockPushed /\ ImportFailed(imp', root) =>
           parts'[Len(parts) + 1] = <<rootHdr>> \o InPlaceText(imp', root)]_vars

\* C26: within a run the asset set and the URL-to-path map only grow: no
\* asset and no key is removed, and a key keeps the local path it was first
\* given, whatever the later download outcomes are, also when a requested
\* URL redirects to a URL that is requested itself.
C26_AppendOnly ==
    [][/\ Range(cssAssets) \subseteq Range(cssAssets')
       /\ \A k \in MapKeys(urlToLocalRel) :
              /\ k \in MapKeys(urlToLocalRel')
              /\ MapGet(urlToLocalRel', k) = MapGet(urlToLocalRel, k)]_vars

\* What the two selector passes of parseNoscriptAssets take from the
\* fragment of a <noscript>: the src of its img and source elements, then
\* the first token of each srcset candidate.
NoscriptRefs(html) ==
    Flatten([i \in 1..Len(html) |->
        IF html[i].tag = "noscript"
        THEN Flatten([j \in 1..Len(html[i].inner) |->
                 IF html[i].inner[j].tag \in {"img", "source"}
                        /\ html[i].inner[j].src # NoUrl
                 THEN <<html[i].inner[j].src>> ELSE <<>>])
             \o Flatten([j \in 1..Len(html[i].inner) |->
                    SrcsetRefs(html[i].inner[j].srcset)])
        ELSE <<>>])

\* C27: asset discovery over a document with a non-empty <noscript>
\* returns, and what it returns holds, resolved against the base URL, the
\* assets of the live document and every img/source src and srcset first
\* token of the <noscript>, a reference that does not resolve being left
\* out.
C27_NoscriptAssets ==
    pageUrl # NoUrl /\ NoscriptThrows(scn.doc) =>
        /\ pc # "crashed"
        /\ Range(ResolveAll(NoscriptRefs(scn.doc), pageUrl))
               \subseteq Range(htmlAssetUrls)
        /\ Range(collectHtmlAssetUrls(scn.doc, pageUrl))
               \subseteq Range(htmlAssetUrls)

\* The stylesheets the run has fetched and rewritten so far: the text each
\* was served with, the final URL it came from and the text
\* rewriteCssUrlsToAbs returned for it.
RewrittenSheets ==
    {[src |-> BodyOf(imp[u].fin), base |-> imp[u].fin, got |-> imp[u].inv.text] :
         u \in {v \in DOMAIN imp : imp[v].st = "ok"}}
    \cup (IF KindOf(rootHdr) = "hdr"
          THEN {[src |-> BodyOf(root.base), base |-> root.base, got |-> root.text]}
          ELSE {})

\* A data:, #fragment or blob: reference keeps its target and is not in
\* the asset set.
KeepsDataRefs(r) ==
    \A i \in 1..Len(r.src) :
        IsUrlToken(r.src[i]) /\ IsDataRef(ValueOf(r.src[i])) =>
            /\ r.got[i] = r.src[i]
            /\ ValueOf(r.src[i]) \notin Range(cssAssets)

\* The url(...) token at i is replaced where it stands by its absolute
\* form against the URL of its own stylesheet, which is in the asset set.
ResolvedAt(r, i) ==
    /\ r.got[i] = Tok(KindOf(r.src[i]), ResolveUrl(ValueOf(r.src[i]), r.base))
    /\ ResolveUrl(ValueOf(r.src[i]), r.base) \in Range(cssAssets)

\* A second application to the rewritten text changes neither the text nor
\* the asset set.
SecondRewriteSame(r) ==
    /\ rewriteCssUrlsToAbs(r.got, r.base) = r.got
    /\ AddAll(cssAssets, CollectedBy(r.got, r.base)) = cssAssets

\* C28 as stated: of every rewritten stylesheet, the data:, #fragment and
\* blob: references keep their target and stay out of the asset set, every
\* other url(...) reference is replaced in place by its absolute form
\* against the stylesheet's own final URL and is in the asset set, and a
\* second application changes nothing.
C28_EveryUrlResolved ==
    \A r \in RewrittenSheets :
        /\ Len(r.got) = Len(r.src)
        /\ KeepsDataRefs(r)
        /\ \A i \in 1..Len(r.src) :
               IsUrlToken(r.src[i]) /\ ~IsDataRef(ValueOf(r.src[i])) => ResolvedAt(r, i)
        /\ SecondRewriteSame(r)

\* C28, amended: the same, for the references new URL() can parse; a
\* url(...) whose reference does not parse is left as it was written and
\* adds nothing to the asset set, and every token that is not a url(...)
\* is left as it was.
C28_ParsedUrlsResolved ==
    \A r \in RewrittenSheets :
        /\ Len(r.got) = Len(r.src)
        /\ KeepsDataRefs(r)
        /\ \A i \in 1..Len(r.src) :
               IF /\ IsUrlToken(r.src[i])
                  /\ ~IsDataRef(ValueOf(r.src[i]))
                  /\ CanResolve(ValueOf(r.src[i]))
               THEN ResolvedAt(r, i)
               ELSE r.got[i] = r.src[i]
        /\ BadRef \notin Range(cssAssets)
        /\ SecondRewriteSame(r)

\* B.css, imported by A.css and served after a redirect into a directory,
\* has been rewritten: its relative reference now points into the
\* directory, its data: reference is as before.
C28_Witness ==
    /\ Sb \in DOMAIN imp
    /\ imp[Sb].st = "ok"
    /\ imp[Sb].fin = SbMoved
    /\ BodyOf(SbMoved) = <<Url(Udata), Url(<<"f">>)>>
    /\ imp[Sb].inv.text = <<Url(Udata), Url(<<Origin, "d/", "f">>)>>
    /\ <<Origin, "d/", "f">> \in Range(cssAssets)
    /\ Uf \in Range(cssAssets)

\* No write replaces a file that is already on disk.
NothingOverwritten == \A f \in DOMAIN files : f \in DOMAIN files' /\ files'[f] = files[f]

\* C29: two processes with the same output base name, the second probing
\* before the first has made its directory, end with different
\* directories, and neither writes over a file of the other.
C29_OverlapSeparate ==
    /\ [](folder # -1 /\ peerFolder # -1 => folder # peerFolder)
    /\ [][NothingOverwritten]_vars

\* The invocations of inlineCssImports that have run their scan: the one
\* of the stylesheet or block in turn and those of the fetched imports.
Invocations ==
    {root} \cup {imp[u].inv : u \in {v \in DOMAIN imp : imp[v].st = "ok"}}

\* How often the scan of an invocation visited the @import rule tok: each
\* visit pushed one task or one fallback.
VisitsOf(inv, tok) ==
    Cardinality({i \in 1..Len(inv.tasks) : inv.tasks[i][1] = tok})
        + Cardinality({i \in 1..Len(inv.fbs) : inv.fbs[i][1] = tok})

OtherScheme(ref) == ref # <<>> /\ ref[1] \in AbsFragments \ HttpFragments

\* The references of an element, attribute by attribute.
AttrRefs(el) ==
    <<el.src, el.href, el.dataSrc, el.dataOriginal, el.dataLazy>>
        \o [i \in 1..Len(el.srcset) |-> el.srcset[i][1]]
        \o [i \in 1..Len(el.dataSrcset) |-> el.dataSrcset[i][1]]
        \o [i \in 1..Len(el.style) |->
               IF IsUrlToken(el.style[i]) THEN ValueOf(el.style[i]) ELSE NoUrl]

\* The HTML pass has left every reference of another scheme as it was.
HtmlKeepsOtherSchemes ==
    LET kept == KeepElements(scn.doc)
    IN  \A i \in 1..Len(kept) :
            /\ Len(AttrRefs(finalHtml[i])) = Len(AttrRefs(kept[i]))
            /\ \A a \in 1..Len(AttrRefs(kept[i])) :
                   OtherScheme(AttrRefs(kept[i])[a]) =>
                       AttrRefs(finalHtml[i])[a] = AttrRefs(kept[i])[a]

\* The CSS pass has left every url(...) of another scheme as it was.
CssKeepsOtherSchemes ==
    \A i \in 1..Len(CssTextOf(parts)) :
        IsUrlToken(CssTextOf(parts)[i]) /\ OtherScheme(ValueOf(CssTextOf(parts)[i])) =>
            localCss[i] = CssTextOf(parts)[i]

\* Only http(s) URLs are given to the downloader, requested and entered in
\* the map.
OnlyHttpDownloaded ==
    /\ \A i \in 1..Len(urls) : IsHttp(urls[i])
    /\ \A q \in DOMAIN reqs : q[1] = "asset" => IsHttp(q[2])
    /\ \A k \in MapKeys(urlToLocalRel) : IsHttp(k)

\* C31: every URL passed to the downloader is an absolute http(s) URL; a
\* discovered reference of any other scheme is never requested, never gets
\* a map entry, and is left as it was by the CSS pass and by the HTML pass.
C31_OnlyHttpAssets ==
    /\ OnlyHttpDownloaded
    /\ pc \in {"writeIndex", "writeCss", "done"} =>
           HtmlKeepsOtherSchemes /\ CssKeepsOtherSchemes

\* How often a name is in a list of files.
TimesIn(list, f) == Cardinality({k \in 1..Len(list) : list[k] = f})

\* The POST /index requests of file f that were answered with code.
Answered(f, code) ==
    {i \in 1..MaxPosts : posts[i].pc = "done" /\ posts[i].status = code /\ posts[i].file = f}

\* C32: whatever POST /index requests were made and however they
\* overlapped, GET /files lists a file name once for each request of that
\* file that was answered 200 and never for a request answered 400 or 500:
\* a failed request leaves the list as it was.
C32_ListedOncePer200 ==
    /\ \A f \in FileNames : TimesIn(uploadedFiles, f) = Cardinality(Answered(f, 200))
    /\ \A k \in 1..Len(listed) :
           TimesIn(listed, listed[k]) <= Cardinality(Answered(listed[k], 200))
====
